---------------------------- MODULE Spec2Model ----------------------------
(***************************************************************************)
(* A model of lib/spack/spack/spec_list.py: the SpecList container, its    *)
(* three lazily computed caches, reference expansion and matrix expansion. *)
(*                                                                         *)
(* Python values are tagged records:                                       *)
(*   [k |-> "str",  s  |-> <<chars>>]       a str (a sequence of 1-char    *)
(*                                          strings)                       *)
(*   [k |-> "list", xs |-> <<values>>]      a list                         *)
(*   [k |-> "dict", items |-> <<<<key, value>>, ...>>]                     *)
(*                                          a dict, in insertion order     *)
(*   [k |-> "ref",  id |-> n]               a dict object of the heap: the *)
(*                                          dicts built by                 *)
(*                                          _expand_references are shared  *)
(*                                          between the lists that splice  *)
(*                                          them and are mutated in place  *)
(*                                          by _sigilify                   *)
(*   [k |-> "spec", toks |-> <<tokens>>]    a parsed Spec                  *)
(***************************************************************************)
EXTENDS Integers, Sequences, FiniteSets, TLC

VARIABLES yaml_list, reference, expanded_list, constraints, specs, heap,
          given, last, pre

vars == <<yaml_list, reference, expanded_list, constraints, specs, heap,
          given, last, pre>>

\* ------------------------------------------------------------------ bounds

\* The longest raw list a container grows to by add and extend.
MaxLen == 3

\* The longest token the ordering key is taken of, but for the tokens named
\* one by one.
MaxToken == 3

\* The longest value of an environment variable, but for the values named
\* one by one.
MaxEnv == 2

\* ------------------------------------------------------------ Python values

None == [k |-> "none"]

S(cs) == [k |-> "str", s |-> cs]

L(xs) == [k |-> "list", xs |-> xs]

D(items) == [k |-> "dict", items |-> items]

Ref(n) == [k |-> "ref", id |-> n]

IsStr(v) == v.k = "str"

IsList(v) == v.k = "list"

\* A dict of the raw list (by value) or a dict object of the heap.
IsDict(v) == v.k \in {"dict", "ref"}

\* str.startswith(c) for a one-character c.
StartsWith(s, c) == Len(s) > 0 /\ s[1] = c

\* c in s
Contains(s, c) == \E i \in 1..Len(s) : s[i] = c

\* s[1:]
Slice1(s) == IF Len(s) = 0 THEN <<>> ELSE Tail(s)

RECURSIVE Join(_, _)
\* sep.join(xs) for a sequence xs of character sequences.
Join(xs, sep) ==
    IF Len(xs) = 0 THEN <<>>
    ELSE IF Len(xs) = 1 THEN xs[1]
    ELSE xs[1] \o sep \o Join(Tail(xs), sep)

\* dict.get(key, default) on the items of a dict.
DictGet(items, key, default) ==
    IF \E i \in 1..Len(items) : items[i][1] = key
    THEN items[CHOOSE i \in 1..Len(items) : items[i][1] = key][2]
    ELSE default

DictHas(items, key) == \E i \in 1..Len(items) : items[i][1] = key

\* d[key] = val: in place when the key exists, appended otherwise.
DictSet(items, key, val) ==
    IF DictHas(items, key)
    THEN [i \in 1..Len(items) |->
            IF items[i][1] = key THEN <<key, val>> ELSE items[i]]
    ELSE Append(items, <<key, val>>)

\* ------------------------------------------------------ spec_ordering_key

\* A slip: the test for "=" comes first.
spec_ordering_key_eq_first(s) ==
    IF Contains(s, "=") THEN 2
    ELSE IF StartsWith(s, "^") THEN 5
    ELSE IF StartsWith(s, "/") THEN 4
    ELSE IF StartsWith(s, "%") THEN 3
    ELSE IF \E c \in {"~", "-", "+", "@"} : StartsWith(s, c) THEN 2
    ELSE 1

spec_ordering_key(s) ==
    IF StartsWith(s, "^") THEN 5
    ELSE IF StartsWith(s, "/") THEN 4
    ELSE IF StartsWith(s, "%") THEN 3
    ELSE IF (\E c \in {"~", "-", "+", "@"} : StartsWith(s, c))
            \/ Contains(s, "=") THEN 2
    ELSE 1

\* ------------------------------------------- the Spec capability (external)

\* The characters that start a new constraint inside a spec string.
SigilChars == {"^", "/", "%", "~", "-", "+", "@"}

RECURSIVE TokStep(_, _, _, _)
TokStep(s, i, done, cur) ==
    LET flushed == IF cur = <<>> THEN done ELSE Append(done, cur) IN
    IF i > Len(s) THEN flushed
    ELSE IF s[i] = " " THEN TokStep(s, i + 1, flushed, <<>>)
    ELSE IF s[i] \in SigilChars THEN TokStep(s, i + 1, flushed, <<s[i]>>)
    ELSE TokStep(s, i + 1, done, Append(cur, s[i]))

\* The constraints of a spec string: blanks separate them and a sigil
\* character starts one, so "pkg @1.0" and "pkg@1.0" parse alike.
Tokens(s) == TokStep(s, 1, <<>>, <<>>)

\* SpecOf(x): parse a str, copy a Spec.
SpecOf(x) == IF x.k = "spec" THEN x ELSE [k |-> "spec", toks |-> Tokens(x.s)]

\* Spec.__eq__
SpecEq(a, b) == a.toks = b.toks

\* a.satisfies(b): a carries every constraint of b.
Satisfies(a, b) ==
    \A i \in 1..Len(b.toks) : \E j \in 1..Len(a.toks) : a.toks[j] = b.toks[i]

\* a.constrain(b): a narrowed by the constraints of b it does not carry yet.
Constrain(a, b) ==
    [k |-> "spec",
     toks |-> a.toks \o SelectSeq(b.toks,
                  LAMBDA t : ~ \E j \in 1..Len(a.toks) : a.toks[j] = t)]

\* str(x): a str is itself, a Spec is formatted from its constraints.
PyStr(x) == IF x.k = "spec" THEN Join(x.toks, <<>>) ELSE x.s

\* ------------------------------------------------------ containers and maps

Containers == {"A", "B", "C"}

\* The number of nested specs_as_yaml_list frames an acyclic chain of
\* references can need; a chain that needs more is a cycle, which Python
\* ends with RecursionError.
Fuel == Cardinality(Containers)

\* ------------------------------------------------------ reference expansion

\* SpecList._parse_reference
parse_reference(c, item) ==
    LET n1    == Slice1(item)
        sig   == StartsWith(n1, "^") \/ StartsWith(n1, "%")
        sigil == IF sig THEN <<n1[1]>> ELSE <<>>
        name  == IF sig THEN Slice1(n1) ELSE n1
    IN  [name |-> name, sigil |-> sigil,
         err |-> IF DictHas(reference[c], name) THEN "ok"
                 ELSE "UndefinedReferenceError"]

\* _sigilify: on a dict object the sigil is stored in the object itself.
sigilify(item, sigil, hp) ==
    IF item.k = "ref"
    THEN [val |-> item,
          heap |-> IF sigil # <<>>
                   THEN [hp EXCEPT ![item.id] = DictSet(@, "sigil", S(sigil))]
                   ELSE hp,
          err |-> "ok"]
    ELSE IF IsStr(item)
    THEN [val |-> S(sigil \o item.s), heap |-> hp, err |-> "ok"]
    ELSE [val |-> None, heap |-> hp, err |-> "TypeError"]

\* One more element r of the comprehension of lines 151-154.
sigilify_step(acc, r) ==
    [ret |-> Append(acc.ret, r.val), heap |-> r.heap, err |-> r.err]

RECURSIVE sigilify_all(_, _, _, _)
\* [_sigilify(spec, sigil) for spec in xs], from element i on.
sigilify_all(xs, sigil, i, acc) ==
    IF i > Len(xs) \/ acc.err # "ok" THEN acc
    ELSE sigilify_all(xs, sigil, i + 1,
             sigilify_step(acc, sigilify(xs[i], sigil, acc.heap)))

RECURSIVE expand_references(_, _, _, _)
RECURSIVE expand_list(_, _, _, _, _)
RECURSIVE expand_item(_, _, _, _)
RECURSIVE expand_reference_item(_, _, _, _)
RECURSIVE expand_dict(_, _, _, _, _)
RECURSIVE specs_as_yaml_list(_, _, _)

\* Line 49: the result r of _expand_references is kept in _expanded_list; an
\* error leaves the cache as it was.
yaml_list_assign(c, r) ==
    IF r.err = "ok"
    THEN [st |-> [r.st EXCEPT !.exp[c] = r.val], err |-> "ok"]
    ELSE [st |-> r.st, err |-> r.err]

\* SpecList.specs_as_yaml_list of container c in store st (the heap and
\* the caches of every container): the store after the read, where
\* st.exp[c] is the value returned, or the error raised.
specs_as_yaml_list(c, st, fuel) ==
    IF st.exp[c].k # "none" THEN [st |-> st, err |-> "ok"]
    ELSE IF fuel = 0 THEN [st |-> st, err |-> "RecursionError"]
    ELSE yaml_list_assign(c,
             expand_references(c, L(yaml_list[c]), st, fuel))

\* A slip: the referent is appended as one nested list.
splice_nested(acc, st, sg) ==
    [ret |-> Append(acc.ret, L(sg.ret)), st |-> [st EXCEPT !.heap = sg.heap],
     err |-> sg.err]

\* Line 155: ret.extend(referent), the referent being sg.
splice(acc, st, sg) ==
    [ret |-> acc.ret \o sg.ret, st |-> [st EXCEPT !.heap = sg.heap],
     err |-> sg.err]

\* Lines 151-155: the elements of the expanded view of target, read as r,
\* get the sigil and are spliced in.
referent(acc, target, sigil, r) ==
    IF r.err # "ok" THEN [acc EXCEPT !.st = r.st, !.err = r.err]
    ELSE splice(acc, r.st,
             sigilify_all(r.st.exp[target].xs, sigil, 1,
                 [ret |-> <<>>, heap |-> r.st.heap, err |-> "ok"]))

\* Lines 150-155: a reference item, parsed as p.
expand_reference_item(c, acc, fuel, p) ==
    IF p.err # "ok" THEN [acc EXCEPT !.err = p.err]
    ELSE referent(acc, DictGet(reference[c], p.name, ""), p.sigil,
             specs_as_yaml_list(DictGet(reference[c], p.name, ""), acc.st,
                                fuel - 1))

\* Line 160: ret.append(self._expand_references(item))
append_expanded(acc, r) ==
    [ret |-> Append(acc.ret, r.val), st |-> r.st, err |-> r.err]

\* Lines 146-160: one item of the list.
expand_item(c, item, acc, fuel) ==
    IF IsStr(item)
    THEN IF StartsWith(item.s, "$")
         THEN expand_reference_item(c, acc, fuel, parse_reference(c, item.s))
         ELSE [acc EXCEPT !.ret = Append(@, item)]
    ELSE append_expanded(acc, expand_references(c, item, acc.st, fuel))

\* The list branch of _expand_references, from item i on.
expand_list(c, xs, i, acc, fuel) ==
    IF i > Len(xs) \/ acc.err # "ok" THEN acc
    ELSE expand_list(c, xs, i + 1, expand_item(c, xs[i], acc, fuel), fuel)

\* Line 164: one (name, self._expand_references(val)) pair.
dict_step(key, acc, r) ==
    [ret |-> Append(acc.ret, <<key, r.val>>), st |-> r.st, err |-> r.err]

\* A slip: the values of a dict are copied without being scanned.
expand_dict_unscanned(c, items, i, acc, fuel) == [acc EXCEPT !.ret = items]

\* The dict branch of _expand_references, from item i on.
expand_dict(c, items, i, acc, fuel) ==
    IF i > Len(items) \/ acc.err # "ok" THEN acc
    ELSE expand_dict(c, items, i + 1,
             dict_step(items[i][1], acc,
                 expand_references(c, items[i][2], acc.st, fuel)),
             fuel)

\* Line 161: return ret
list_result(r) == [val |-> L(r.ret), st |-> r.st, err |-> r.err]

\* Lines 164-165: the new dict is a new object.
dict_result(r) ==
    IF r.err = "ok"
    THEN [val |-> Ref(Len(r.st.heap) + 1),
          st |-> [r.st EXCEPT !.heap = Append(@, r.ret)],
          err |-> "ok"]
    ELSE [val |-> None, st |-> r.st, err |-> r.err]

\* SpecList._expand_references: a list is rebuilt with its references
\* spliced in, a dict is rebuilt as a new dict object, anything else is the
\* "unreachable" ValueError.
expand_references(c, y, st, fuel) ==
    IF IsList(y)
    THEN list_result(expand_list(c, y.xs, 1,
             [ret |-> <<>>, st |-> st, err |-> "ok"], fuel))
    ELSE IF y.k = "dict"
    THEN dict_result(expand_dict(c, y.items, 1,
             [ret |-> <<>>, st |-> st, err |-> "ok"], fuel))
    ELSE [val |-> None, st |-> st, err |-> "ValueError"]

\* --------------------------------------------------------- matrix expansion

\* The items of a dict: of a dict object of the heap, or of a dict by value.
ItemsOf(v, hp) == IF v.k = "ref" THEN hp[v.id] ELSE v.items

RECURSIVE Prepend(_, _, _)
\* The tuples of rest behind each element of row, from element i on.
Prepend(row, rest, i) ==
    IF i > Len(row) THEN <<>>
    ELSE [j \in 1..Len(rest) |-> <<row[i]>> \o rest[j]]
         \o Prepend(row, rest, i + 1)

RECURSIVE Product(_)
\* itertools.product(*rows): the first row varies slowest, the last fastest;
\* no rows give the one empty tuple.
Product(rows) ==
    IF Len(rows) = 0 THEN << <<>> >>
    ELSE Prepend(Head(rows), Product(Tail(rows)), 1)

\* acc with x behind its first n elements.
InsertAt(acc, x, n) ==
    SubSeq(acc, 1, n) \o <<x>> \o SubSeq(acc, n + 1, Len(acc))

\* A slip: x goes in front of the elements of its own key, which makes the
\* sort unstable.
InsertBeforeEqual(acc, x) ==
    InsertAt(acc, x,
        Cardinality({i \in 1..Len(acc) :
            spec_ordering_key(acc[i].s) < spec_ordering_key(x.s)}))

\* One step of a stable insertion sort: x goes behind the last element whose
\* key is not larger than its own.
InsertByKey(acc, x) ==
    InsertAt(acc, x,
        Cardinality({i \in 1..Len(acc) :
            spec_ordering_key(acc[i].s) <= spec_ordering_key(x.s)}))

RECURSIVE SortFrom(_, _, _)
SortFrom(combo, i, acc) ==
    IF i > Len(combo) THEN acc
    ELSE SortFrom(combo, i + 1, InsertByKey(acc, combo[i]))

\* sorted(combo, key=spec_ordering_key)
sorted_combo(combo) == SortFrom(combo, 1, <<>>)

\* ' '.join(combo) for a combo of strs.
JoinCombo(combo) == Join([i \in 1..Len(combo) |-> combo[i].s], <<" ">>)

\* any(test_spec.satisfies(x) for x in excludes)
Excluded(ordered_combo, excludes) ==
    \E i \in 1..Len(excludes) :
        Satisfies(SpecOf(S(JoinCombo(ordered_combo))), SpecOf(excludes[i]))

\* A slip: the sigil goes in front of every token.
apply_sigil_to_all(ordered_combo, sigil) ==
    IF sigil = <<>> THEN [combo |-> ordered_combo, err |-> "ok"]
    ELSE IF Len(ordered_combo) = 0
    THEN [combo |-> ordered_combo, err |-> "IndexError"]
    ELSE [combo |-> [j \in 1..Len(ordered_combo) |->
                       S(sigil \o ordered_combo[j].s)],
          err |-> "ok"]

\* Lines 232-233: the sigil goes in front of the first token.
apply_sigil(ordered_combo, sigil) ==
    IF sigil = <<>> THEN [combo |-> ordered_combo, err |-> "ok"]
    ELSE IF Len(ordered_combo) = 0
    THEN [combo |-> ordered_combo, err |-> "IndexError"]
    ELSE [combo |-> [ordered_combo EXCEPT ![1] = S(sigil \o @.s)],
          err |-> "ok"]

RECURSIVE expand_matrix_constraints(_, _, _)
RECURSIVE expand_flatten(_, _, _, _)
RECURSIVE expand_cell(_, _, _)

\* Lines 187, 190: new_row.extend(...)
flatten_extend(acc, r) == [ret |-> acc.ret \o r.ret, err |-> r.err]

RECURSIVE Flattened(_)
\* The elements of the sequences of xs, in one sequence.
Flattened(xs) == IF Len(xs) = 0 THEN <<>> ELSE Head(xs) \o Flattened(Tail(xs))

\* A slip: the tokens of the combinations of a sub-matrix go into the row
\* one by one.
joined_apart(r) == [ret |-> Flattened(r.res), err |-> r.err]

\* A slip: the combinations of a sub-matrix are joined into one single token.
joined_as_one(r) ==
    [ret |-> << S(Join([j \in 1..Len(r.res) |-> JoinCombo(r.res[j])],
                       <<" ">>)) >>,
     err |-> r.err]

\* Lines 190-193: each combination r of a sub-matrix joined into one token.
joined(r) ==
    [ret |-> [j \in 1..Len(r.res) |-> S(JoinCombo(r.res[j]))],
     err |-> r.err]

\* Lines 186-195: one cell of a row.
expand_cell(cell, hp, acc) ==
    IF IsList(cell)
    THEN flatten_extend(acc,
             expand_flatten(cell.xs, hp, 1, [ret |-> <<>>, err |-> "ok"]))
    ELSE IF IsDict(cell)
    THEN flatten_extend(acc,
             joined(expand_matrix_constraints(cell, hp, FALSE)))
    ELSE [acc EXCEPT !.ret = Append(@, cell)]

\* _expand_flatten(row), from cell i on: nested lists are flattened, a
\* sub-matrix gives one space-joined token per combination.
expand_flatten(row, hp, i, acc) ==
    IF i > Len(row) \/ acc.err # "ok" THEN acc
    ELSE expand_flatten(row, hp, i + 1, expand_cell(row[i], hp, acc))

\* Line 202: expanded_rows.append(_expand_flatten(row))
row_append(acc, r) == [ret |-> Append(acc.ret, r.ret), err |-> r.err]

\* A slip: the combinations of the record make one row.
row_extend_as_row(acc, r) == [ret |-> Append(acc.ret, r.ret), err |-> r.err]

\* Line 205: expanded_rows.extend([[c] for c in _expand_flatten([row])])
row_extend(acc, r) ==
    [ret |-> acc.ret \o [j \in 1..Len(r.ret) |-> <<r.ret[j]>>],
     err |-> r.err]

\* Lines 200-208: one row of object['matrix'].
expand_row(row, hp, acc) ==
    IF IsList(row)
    THEN row_append(acc,
             expand_flatten(row.xs, hp, 1, [ret |-> <<>>, err |-> "ok"]))
    ELSE IF IsDict(row)
    THEN row_extend(acc,
             expand_flatten(<<row>>, hp, 1, [ret |-> <<>>, err |-> "ok"]))
    ELSE [acc EXCEPT !.ret = Append(@, <<row>>)]

RECURSIVE expand_rows(_, _, _, _)
\* Lines 198-208: the expanded rows of object['matrix'], from row i on.
expand_rows(matrix, hp, i, acc) ==
    IF i > Len(matrix) \/ acc.err # "ok" THEN acc
    ELSE expand_rows(matrix, hp, i + 1, expand_row(matrix[i], hp, acc))

\* Lines 232-239: the combo sg, sigil applied, is added to the results.
emit(acc, sg, specify) ==
    IF sg.err # "ok" THEN [acc EXCEPT !.err = sg.err]
    ELSE [acc EXCEPT !.res =
            Append(@, IF specify
                      THEN [j \in 1..Len(sg.combo) |-> SpecOf(sg.combo[j])]
                      ELSE sg.combo)]

\* A slip: the exclusions are tested on the combo that carries the sigil.
combo_step_sigil_first(ordered_combo, excludes, sigil, specify, acc) ==
    IF apply_sigil(ordered_combo, sigil).err = "ok"
       /\ Excluded(apply_sigil(ordered_combo, sigil).combo, excludes)
    THEN acc
    ELSE emit(acc, apply_sigil(ordered_combo, sigil), specify)

\* Lines 216-239: one tuple of the product, already sorted.
combo_step(ordered_combo, excludes, sigil, specify, acc) ==
    IF Excluded(ordered_combo, excludes) THEN acc
    ELSE emit(acc, apply_sigil(ordered_combo, sigil), specify)

RECURSIVE combos_from(_, _, _, _, _, _)
\* Lines 213-240: the loop over the product, from tuple i on.
combos_from(product, excludes, sigil, specify, i, acc) ==
    IF i > Len(product) \/ acc.err # "ok" THEN acc
    ELSE combos_from(product, excludes, sigil, specify, i + 1,
             combo_step(sorted_combo(product[i]), excludes, sigil, specify,
                        acc))

\* A slip: a matrix without rows gives no combo.
combos_of_rows_or_none(rows, items, specify) ==
    IF rows.err # "ok" THEN [res |-> <<>>, err |-> rows.err]
    ELSE IF rows.ret = <<>> THEN [res |-> <<>>, err |-> "ok"]
    ELSE combos_from(Product(rows.ret),
             DictGet(items, "exclude", L(<<>>)).xs,
             DictGet(items, "sigil", S(<<>>)).s,
             specify, 1, [res |-> <<>>, err |-> "ok"])

\* Lines 210-240, for the expanded rows.
combos_of_rows(rows, items, specify) ==
    IF rows.err # "ok" THEN [res |-> <<>>, err |-> rows.err]
    ELSE combos_from(Product(rows.ret),
             DictGet(items, "exclude", L(<<>>)).xs,
             DictGet(items, "sigil", S(<<>>)).s,
             specify, 1, [res |-> <<>>, err |-> "ok"])

\* _expand_matrix_constraints for the items of the record.
matrix_of_items(items, hp, specify) ==
    combos_of_rows(
        expand_rows(DictGet(items, "matrix", L(<<>>)).xs, hp, 1,
                    [ret |-> <<>>, err |-> "ok"]),
        items, specify)

\* _expand_matrix_constraints(object, specify): the combos of a matrix
\* record, or the error raised.
expand_matrix_constraints(object, hp, specify) ==
    matrix_of_items(ItemsOf(object, hp), hp, specify)

\* ------------------------------------------------------- the derived views

\* The container the client calls; "B" and "C" are the lists it refers to
\* by name.
Actors == {"A"}

\* The store the reads work on: the heap and the three caches of every
\* container.
Store == [heap |-> heap, exp |-> expanded_list, cons |-> constraints,
          specs |-> specs]

\* Line 58: constraints.extend(_expand_matrix_constraints(item))
constraints_extend(acc, r) == [res |-> acc.res \o r.res, err |-> r.err]

\* Lines 57-60: one item of the expanded view.
constraints_item(item, hp, acc) ==
    IF IsDict(item)
    THEN constraints_extend(acc, expand_matrix_constraints(item, hp, TRUE))
    ELSE IF IsStr(item)
    THEN [acc EXCEPT !.res = Append(@, <<SpecOf(item)>>)]
    ELSE [acc EXCEPT !.err = "TypeError"]

RECURSIVE constraints_from(_, _, _, _)
\* Lines 55-60: the loop over specs_as_yaml_list, from item i on.
constraints_from(xs, hp, i, acc) ==
    IF i > Len(xs) \/ acc.err # "ok" THEN acc
    ELSE constraints_from(xs, hp, i + 1, constraints_item(xs[i], hp, acc))

\* Line 61: self._constraints = constraints
constraints_assign(c, st, r) ==
    IF r.err = "ok"
    THEN [st |-> [st EXCEPT !.cons[c] = L(r.res)], err |-> "ok"]
    ELSE [st |-> st, err |-> r.err]

\* Lines 55-61, the expanded view having been read as y.
constraints_of_view(c, y) ==
    IF y.err # "ok" THEN y
    ELSE constraints_assign(c, y.st,
             constraints_from(y.st.exp[c].xs, y.st.heap, 1,
                              [res |-> <<>>, err |-> "ok"]))

\* SpecList.specs_as_constraints
specs_as_constraints(c, st, fuel) ==
    IF st.cons[c].k # "none" THEN [st |-> st, err |-> "ok"]
    ELSE constraints_of_view(c, specs_as_yaml_list(c, st, fuel))

RECURSIVE constrain_from(_, _, _)
\* Lines 73-74: spec.constrain(const) for the constraints from i on.
constrain_from(constraint_list, i, spec) ==
    IF i > Len(constraint_list) THEN spec
    ELSE constrain_from(constraint_list, i + 1,
             Constrain(spec, constraint_list[i]))

\* A slip: spec = constraint_list[0], the constraint object itself, which
\* the calls of constrain then change.
first_same(constraint_list, rest) == <<rest>> \o Tail(constraint_list)

\* Line 72: spec = constraint_list[0].copy(), a new object; the combo after
\* the calls of constrain that made the copy rest is what it was.
first_copy(constraint_list, rest) == constraint_list

\* Lines 72-74 for one combo: the spec built, and the combo afterwards.
fold_combo(constraint_list) ==
    [spec |-> constrain_from(constraint_list, 2, SpecOf(constraint_list[1])),
     combo |-> first_copy(constraint_list,
                   constrain_from(constraint_list, 2,
                                  SpecOf(constraint_list[1])))]

\* Lines 71-76: constraint_list[0] of an empty combo is an IndexError.
fold_specs(c, st, cl) ==
    IF \E i \in 1..Len(cl) : Len(cl[i]) = 0
    THEN [st |-> st, err |-> "IndexError"]
    ELSE [st |-> [st EXCEPT
                    !.specs[c] = L([i \in 1..Len(cl) |-> fold_combo(cl[i]).spec]),
                    !.cons[c] = L([i \in 1..Len(cl) |-> fold_combo(cl[i]).combo])],
          err |-> "ok"]

\* Lines 68-76, the constraints having been read as y.
specs_of_constraints(c, y) ==
    IF y.err # "ok" THEN y ELSE fold_specs(c, y.st, y.st.cons[c].xs)

\* SpecList.specs
specs_of(c, st, fuel) ==
    IF st.specs[c].k # "none" THEN [st |-> st, err |-> "ok"]
    ELSE specs_of_constraints(c, specs_as_constraints(c, st, fuel))

\* ------------------------------------------- dict objects: identity, garbage

\* The order in which the model numbers the live dict objects.
COrder == <<"A", "B", "C">>

RECURSIVE VisitVal(_, _, _)
RECURSIVE VisitSeq(_, _, _, _)
\* The dict objects reachable from v, behind those already seen, in the
\* order they are met.
VisitVal(v, hp, seen) ==
    IF v.k = "ref"
    THEN IF \E i \in 1..Len(seen) : seen[i] = v.id THEN seen
         ELSE VisitSeq([i \in 1..Len(hp[v.id]) |-> hp[v.id][i][2]], hp, 1,
                       Append(seen, v.id))
    ELSE IF v.k = "list" THEN VisitSeq(v.xs, hp, 1, seen)
    ELSE seen

VisitSeq(xs, hp, i, seen) ==
    IF i > Len(xs) THEN seen
    ELSE VisitSeq(xs, hp, i + 1, VisitVal(xs[i], hp, seen))

RECURSIVE Renamed(_, _)
\* v with every dict object named by its place in live.
Renamed(v, live) ==
    IF v.k = "ref"
    THEN Ref(CHOOSE i \in 1..Len(live) : live[i] = v.id)
    ELSE IF v.k = "list"
    THEN L([i \in 1..Len(v.xs) |-> Renamed(v.xs[i], live)])
    ELSE v

\* The store with only the dict objects of live, named by their place in it.
CanonWith(st, live) ==
    [st EXCEPT
       !.heap = [i \in 1..Len(live) |->
                   [j \in 1..Len(st.heap[live[i]]) |->
                      <<st.heap[live[i]][j][1],
                        Renamed(st.heap[live[i]][j][2], live)>>]],
       !.exp = [c \in Containers |-> Renamed(st.exp[c], live)]]

\* The store with the unreachable dict objects dropped and the live ones
\* renumbered: Python's dict objects have no number, so two stores that
\* differ only in numbering are the same program state.
Canon(st) ==
    CanonWith(st, VisitSeq([i \in 1..Len(COrder) |-> st.exp[COrder[i]]],
                           st.heap, 1, <<>>))

RECURSIVE Deep(_, _)
\* v with every dict object replaced by its contents.
Deep(v, hp) ==
    IF v.k = "ref"
    THEN D([j \in 1..Len(hp[v.id]) |->
              <<hp[v.id][j][1], Deep(hp[v.id][j][2], hp)>>])
    ELSE IF v.k = "list"
    THEN L([i \in 1..Len(v.xs) |-> Deep(v.xs[i], hp)])
    ELSE v

\* What the state was before the last call, dict objects by contents.
Snapshot ==
    [yaml_list |-> yaml_list, reference |-> reference,
     expanded_list |-> [c \in Containers |-> Deep(expanded_list[c], heap)],
     constraints |-> constraints, specs |-> specs]

\* ------------------------------------------------------------- operations

\* The heap and the caches become those of the store cs.
ApplyCanon(cs) ==
    /\ heap' = cs.heap
    /\ expanded_list' = cs.exp
    /\ constraints' = cs.cons
    /\ specs' = cs.specs

\* The caches and the heap after a call that left them as st.
ApplyStore(st) == ApplyCanon(Canon(st))

\* A slip: add invalidates the expanded view like the other mutators.
add_caches_invalidating(c, str, st) ==
    [st EXCEPT !.exp[c] = None, !.cons[c] = None, !.specs[c] = None]

\* Lines 83-89: what add does to the caches of c.
add_caches(c, str, st) ==
    [st EXCEPT !.exp[c] = IF @.k # "none" THEN L(Append(@.xs, S(str))) ELSE @,
               !.cons[c] = None,
               !.specs[c] = None]

\* SpecList.add
add(c, spec) ==
    /\ Len(yaml_list[c]) < MaxLen
    /\ yaml_list' = [yaml_list EXCEPT ![c] = Append(@, S(PyStr(spec)))]
    /\ ApplyStore(add_caches(c, PyStr(spec), Store))
    /\ UNCHANGED reference
    /\ last' = [op |-> "add", c |-> c, arg |-> spec, err |-> "ok"]
    /\ pre' = Snapshot
    /\ UNCHANGED given

\* Lines 93-95: the indices of the raw entries remove selects.
remove_matches(ys, spec) ==
    {i \in 1..Len(ys) :
        /\ IsStr(ys[i])
        /\ ~ StartsWith(ys[i].s, "$")
        /\ SpecEq(SpecOf(ys[i]), SpecOf(spec))}

\* A slip: the last entry is dropped, whatever x is.
list_remove_last(ys, x) == SubSeq(ys, 1, Len(ys) - 1)

\* list.remove(x): the list without its first element equal to x.
list_remove(ys, x) ==
    SelectSeq([i \in 1..Len(ys) |->
                  IF ys[i] = x /\ \A j \in 1..(i - 1) : ys[j] # x
                  THEN None ELSE ys[i]],
              LAMBDA e : e.k # "none")

\* A slip: the expanded view is left cached.
invalidate_derived_only(c, st) ==
    [st EXCEPT !.cons[c] = None, !.specs[c] = None]

\* Lines 104-107, 111-113, 120-122: every cache of c set to None.
invalidate_all(c, st) ==
    [st EXCEPT !.exp[c] = None, !.cons[c] = None, !.specs[c] = None]

\* A slip: the caches are dropped before the matches are counted.
remove_selected_clearing(c, spec, m) ==
    IF Cardinality(m) # 1
    THEN /\ ApplyStore(invalidate_all(c, Store))
         /\ UNCHANGED yaml_list
         /\ last' = [op |-> "remove", c |-> c, arg |-> spec,
                     err |-> IF m = {} THEN "SpecListError"
                             ELSE "AssertionError"]
    ELSE /\ yaml_list' = [yaml_list EXCEPT
               ![c] = list_remove(@, yaml_list[c][CHOOSE i \in m : TRUE])]
         /\ ApplyStore(invalidate_all(c, Store))
         /\ last' = [op |-> "remove", c |-> c, arg |-> spec, err |-> "ok"]

\* Lines 96-107, remove holding the entries of indices m.
remove_selected(c, spec, m) ==
    IF m = {}
    THEN /\ UNCHANGED <<yaml_list, expanded_list, constraints, specs, heap>>
         /\ last' = [op |-> "remove", c |-> c, arg |-> spec,
                     err |-> "SpecListError"]
    ELSE IF Cardinality(m) # 1
    THEN /\ UNCHANGED <<yaml_list, expanded_list, constraints, specs, heap>>
         /\ last' = [op |-> "remove", c |-> c, arg |-> spec,
                     err |-> "AssertionError"]
    ELSE /\ yaml_list' = [yaml_list EXCEPT
               ![c] = list_remove(@, yaml_list[c][CHOOSE i \in m : TRUE])]
         /\ ApplyStore(invalidate_all(c, Store))
         /\ last' = [op |-> "remove", c |-> c, arg |-> spec, err |-> "ok"]

\* SpecList.remove
remove(c, spec) ==
    /\ pre' = Snapshot
    /\ UNCHANGED given
    /\ UNCHANGED reference
    /\ remove_selected(c, spec, remove_matches(yaml_list[c], spec))

\* A slip: the caches of other are dropped along with those of c.
extend_invalidating_other(c, other, copy_reference) ==
    /\ Len(yaml_list[c]) + Len(yaml_list[other]) <= MaxLen
    /\ yaml_list' = [yaml_list EXCEPT ![c] = @ \o yaml_list[other]]
    /\ ApplyStore(invalidate_all(other, invalidate_all(c, Store)))
    /\ reference' = IF copy_reference
                    THEN [reference EXCEPT ![c] = reference[other]]
                    ELSE reference
    /\ last' = [op |-> "extend", c |-> c,
                arg |-> [k |-> "extend", other |-> other,
                         copy_reference |-> copy_reference],
                err |-> "ok"]
    /\ pre' = Snapshot
    /\ UNCHANGED given

\* SpecList.extend
extend(c, other, copy_reference) ==
    /\ Len(yaml_list[c]) + Len(yaml_list[other]) <= MaxLen
    /\ yaml_list' = [yaml_list EXCEPT ![c] = @ \o yaml_list[other]]
    /\ ApplyStore(invalidate_all(c, Store))
    /\ reference' = IF copy_reference
                    THEN [reference EXCEPT ![c] = reference[other]]
                    ELSE reference
    /\ last' = [op |-> "extend", c |-> c,
                arg |-> [k |-> "extend", other |-> other,
                         copy_reference |-> copy_reference],
                err |-> "ok"]
    /\ pre' = Snapshot
    /\ UNCHANGED given

\* A slip: update_reference leaves the expanded view cached.
update_reference_keeps_view(c, new_map) ==
    /\ reference' = [reference EXCEPT ![c] = new_map]
    /\ ApplyStore(invalidate_derived_only(c, Store))
    /\ UNCHANGED yaml_list
    /\ last' = [op |-> "update_reference", c |-> c,
                arg |-> [k |-> "map", m |-> new_map], err |-> "ok"]
    /\ pre' = Snapshot
    /\ UNCHANGED given

\* SpecList.update_reference
update_reference(c, new_map) ==
    /\ reference' = [reference EXCEPT ![c] = new_map]
    /\ ApplyStore(invalidate_all(c, Store))
    /\ UNCHANGED yaml_list
    /\ last' = [op |-> "update_reference", c |-> c,
                arg |-> [k |-> "map", m |-> new_map], err |-> "ok"]
    /\ pre' = Snapshot
    /\ UNCHANGED given

\* A read of a cached property of c that ended as r.
read_result(c, op, r) ==
    /\ ApplyStore(r.st)
    /\ UNCHANGED <<yaml_list, reference>>
    /\ last' = [op |-> op, c |-> c, arg |-> None, err |-> r.err]
    /\ pre' = Snapshot
    /\ UNCHANGED given

\* A read of c.specs_as_yaml_list
read_yaml_list(c) ==
    read_result(c, "specs_as_yaml_list", specs_as_yaml_list(c, Store, Fuel))

\* A read of c.specs_as_constraints
read_constraints(c) ==
    read_result(c, "specs_as_constraints",
                specs_as_constraints(c, Store, Fuel))

\* A read of c.specs (also len(c) and c[key])
read_specs(c) == read_result(c, "specs", specs_of(c, Store, Fuel))

\* ------------------------------------------------------------ construction

\* The list object the caller passed to the constructor last: its elements,
\* and the containers whose yaml_list is that very object.
NoList == [xs |-> <<>>, held |-> {}]

\* Lines 33-34: every element is a str, a list or a dict.
valid_yaml_list(xs) ==
    \A i \in 1..Len(xs) : IsStr(xs[i]) \/ IsList(xs[i]) \/ IsDict(xs[i])

\* A slip: self.yaml_list = yaml_list, the caller's list object itself.
yaml_list_same(c, xs) == [xs |-> xs, held |-> {c}]

\* Line 38: self.yaml_list = yaml_list[:], a new list object of the same
\* elements.
yaml_list_copy(c, xs) == [xs |-> xs, held |-> {}]

\* Lines 42-44: the three caches of the new object are None.
init_caches(c, st) ==
    [st EXCEPT !.exp[c] = None, !.cons[c] = None, !.specs[c] = None]

\* c = SpecList(name, xs, ref): on ValueError no object is made and c is
\* the object it was.
construct(c, xs, ref) ==
    /\ pre' = Snapshot
    /\ IF valid_yaml_list(xs)
       THEN /\ yaml_list' = [yaml_list EXCEPT ![c] = xs]
            /\ given' = yaml_list_copy(c, xs)
            /\ reference' = [reference EXCEPT ![c] = ref]
            /\ ApplyStore(init_caches(c, Store))
            /\ last' = [op |-> "__init__", c |-> c, arg |-> L(xs),
                        err |-> "ok"]
       ELSE /\ given' = [xs |-> xs, held |-> {}]
            /\ UNCHANGED <<yaml_list, reference, expanded_list, constraints,
                           specs, heap>>
            /\ last' = [op |-> "__init__", c |-> c, arg |-> L(xs),
                        err |-> "ValueError"]

\* The caller appends x to the list it passed to the constructor.
list_append(x) ==
    /\ Len(given.xs) < MaxLen
    /\ given' = [given EXCEPT !.xs = Append(@, x)]
    /\ yaml_list' = [c \in Containers |->
                        IF c \in given.held THEN Append(yaml_list[c], x)
                        ELSE yaml_list[c]]
    /\ UNCHANGED <<reference, expanded_list, constraints, specs, heap>>
    /\ last' = [op |-> "list.append", c |-> "A", arg |-> x, err |-> "ok"]
    /\ pre' = Snapshot

\* ------------------------------------------------------------------ inputs

sx == S(<<"x">>)

sy == S(<<"y">>)

sz == S(<<"z">>)

refL == S(<<"$", "L">>)

refLdep == S(<<"$", "^", "L">>)

refLcomp == S(<<"$", "%", "L">>)

\* {matrix: [[p], [+a, ~a]]}
MatrixP ==
    D(<< <<"matrix", L(<< L(<<S(<<"p">>)>>),
                          L(<<S(<<"+", "a">>), S(<<"~", "a">>)>>) >>)>> >>)

\* The reference maps a container is given: name "L" is B, or C, or absent.
RefMaps == { <<>>, << <<<<"L">>, "B">> >>, << <<<<"L">>, "C">> >> }

\* The raw lists the containers are constructed with.
InitLists ==
    [A : { <<>>, <<sx>>, <<refL, sy, MatrixP>>, <<sy, refLdep>> },
     B : { <<sx>>, <<sx, MatrixP>> },
     C : { <<sz>> }]

AddArgs == {sx, SpecOf(S(<<"y", " ", "+", "a">>))}

RemoveArgs == {S(<<"x", " ">>), sy, S(<<"p", "+", "a">>)}

\* SpecList.__init__, for a valid yaml_list
Init ==
    /\ yaml_list \in InitLists
    /\ reference \in [Containers -> RefMaps]
    /\ reference["A"] \in {<<>>, << <<<<"L">>, "B">> >>}
    /\ reference["B"] = <<>>
    /\ reference["C"] = <<>>
    /\ expanded_list = [c \in Containers |-> None]
    /\ constraints = [c \in Containers |-> None]
    /\ specs = [c \in Containers |-> None]
    /\ heap = <<>>
    /\ given = NoList
    /\ last = [op |-> "init", c |-> "A", arg |-> None, err |-> "ok"]
    /\ pre = [yaml_list |-> yaml_list, reference |-> reference,
              expanded_list |-> [c \in Containers |-> None],
              constraints |-> [c \in Containers |-> None],
              specs |-> [c \in Containers |-> None]]

Next ==
    \E c \in Actors :
        \/ \E spec \in AddArgs : add(c, spec)
        \/ \E spec \in RemoveArgs : remove(c, spec)
        \/ \E other \in Containers, copy_reference \in BOOLEAN :
               extend(c, other, copy_reference)
        \/ \E new_map \in RefMaps : update_reference(c, new_map)
        \/ read_yaml_list(c)
        \/ read_constraints(c)
        \/ read_specs(c)

Spec == Init /\ [][Next]_vars

\* ------------------------------------- reading lists of records and references

\* {matrix: [[+a, %g], [p], [@1, ~b]], exclude: [p~b]}
MatrixTies ==
    D(<< <<"matrix", L(<< L(<<S(<<"+", "a">>), S(<<"%", "g">>)>>),
                          L(<<S(<<"p">>)>>),
                          L(<<S(<<"@", "1">>), S(<<"~", "b">>)>>) >>)>>,
         <<"exclude", L(<<S(<<"p", "~", "b">>)>>)>> >>)

\* {matrix: [[$L, z], [+a]], exclude: [$M]}
MatrixRef ==
    D(<< <<"matrix", L(<< L(<<refL, sz>>), L(<<S(<<"+", "a">>)>>) >>)>>,
         <<"exclude", L(<<S(<<"$", "M">>)>>)>> >>)

\* {matrix: [[$^L], [p]]}
MatrixRefDep ==
    D(<< <<"matrix", L(<< L(<<refLdep>>), L(<<S(<<"p">>)>>) >>)>> >>)

\* {matrix: [[$U]]}, U being no name of the reference map
MatrixUndef ==
    D(<< <<"matrix", L(<< L(<<S(<<"$", "U">>)>>) >>)>> >>)

\* {matrix: [[p], [+a]], sigil: '^'}
MatrixSigil ==
    D(<< <<"matrix", L(<< L(<<S(<<"p">>)>>), L(<<S(<<"+", "a">>)>>) >>)>>,
         <<"sigil", S(<<"^">>)>> >>)

\* $%M
refMcomp == S(<<"$", "%", "M">>)

\* [$L, y], a list nested in the raw list
NestedRef == L(<<refL, sy>>)

\* {matrix: [[+a], [%g, ^d]]}
MatrixInner ==
    D(<< <<"matrix", L(<< L(<<S(<<"+", "a">>)>>),
                          L(<<S(<<"%", "g">>), S(<<"^", "d">>)>>) >>)>> >>)

\* {matrix: [[{matrix: [[+a], [%g, ^d]]}, q], [@1, p]], exclude: [q@1, r]}:
\* a sub-matrix in a row
MatrixSub ==
    D(<< <<"matrix", L(<< L(<<MatrixInner, S(<<"q">>)>>),
                          L(<<S(<<"@", "1">>), S(<<"p">>)>>) >>)>>,
         <<"exclude", L(<<S(<<"q", "@", "1">>), S(<<"r">>)>>)>> >>)

\* {matrix: [[[p, [q]], r], [+a]]}: lists nested in a row
MatrixNested ==
    D(<< <<"matrix",
           L(<< L(<<L(<<S(<<"p">>), L(<<S(<<"q">>)>>)>>), S(<<"r">>)>>),
                L(<<S(<<"+", "a">>)>>) >>)>> >>)

\* {matrix: [{matrix: [[+a, +c]]}, [p, q]]}: a record as a row
MatrixFirst ==
    D(<< <<"matrix",
           L(<< D(<< <<"matrix",
                       L(<< L(<<S(<<"+", "a">>), S(<<"+", "c">>)>>) >>)>> >>),
                L(<<S(<<"p">>), S(<<"q">>)>>) >>)>> >>)

\* {matrix: [], exclude: [r]}
MatrixZero ==
    D(<< <<"matrix", L(<<>>)>>, <<"exclude", L(<<S(<<"r">>)>>)>> >>)

\* {matrix: [[p], []]}
MatrixEmptyRow ==
    D(<< <<"matrix", L(<< L(<<S(<<"p">>)>>), L(<<>>) >>)>> >>)

\* The raw lists of the container that is read and of the list it names L.
ExpandLists ==
    [A : { <<refL>>, <<refLdep>>, <<refL, refLdep>>, <<refLdep, refL>>,
           <<refLdep, refLcomp, refL>>, <<MatrixRef>>, <<sy, MatrixRefDep>>,
           <<MatrixUndef>>, <<MatrixSigil>>, <<MatrixTies>>,
           <<sy, refLdep, sx>>, <<NestedRef>>, <<MatrixEmptyRow>>,
           <<MatrixNested>>, <<MatrixFirst>> },
     B : { <<sx, MatrixP>>, <<MatrixTies, sy>>, <<MatrixSigil>>,
           <<refMcomp, sy>>, <<MatrixSub>>, <<MatrixZero>> },
     C : { <<sz>> }]

\* The containers whose properties are read.
Readers == {"A", "B"}

\* SpecList.__init__ of three containers, A given the map {L: B, M: C} and
\* B the map {M: C}
InitExpand ==
    /\ yaml_list \in ExpandLists
    /\ reference = [c \in Containers |->
                       IF c = "A"
                       THEN << <<<<"L">>, "B">>, <<<<"M">>, "C">> >>
                       ELSE IF c = "B" THEN << <<<<"M">>, "C">> >>
                       ELSE <<>>]
    /\ expanded_list = [c \in Containers |-> None]
    /\ constraints = [c \in Containers |-> None]
    /\ specs = [c \in Containers |-> None]
    /\ heap = <<>>
    /\ given = NoList
    /\ last = [op |-> "init", c |-> "A", arg |-> None, err |-> "ok"]
    /\ pre = [yaml_list |-> yaml_list, reference |-> reference,
              expanded_list |-> [c \in Containers |-> None],
              constraints |-> [c \in Containers |-> None],
              specs |-> [c \in Containers |-> None]]

NextExpand ==
    \E c \in Readers :
        \/ read_yaml_list(c)
        \/ read_constraints(c)
        \/ read_specs(c)

SpecExpand == InitExpand /\ [][NextExpand]_vars

\* ------------------------------------------- adding reference strings to a list

\* The strings add is given: references, with and without a sigil, and a
\* plain string.
AddStrings == {refL, refLdep, sy}

\* SpecList.__init__ of A with the map {L: B} or the empty map
InitAdd ==
    /\ yaml_list \in [A : { <<sx>>, <<sy, refL>> },
                       B : { <<sx, MatrixP>>, <<sz>> },
                       C : { <<sz>> }]
    /\ reference \in [Containers -> RefMaps]
    /\ reference["A"] \in {<<>>, << <<<<"L">>, "B">> >>}
    /\ reference["B"] = <<>>
    /\ reference["C"] = <<>>
    /\ expanded_list = [c \in Containers |-> None]
    /\ constraints = [c \in Containers |-> None]
    /\ specs = [c \in Containers |-> None]
    /\ heap = <<>>
    /\ given = NoList
    /\ last = [op |-> "init", c |-> "A", arg |-> None, err |-> "ok"]
    /\ pre = [yaml_list |-> yaml_list, reference |-> reference,
              expanded_list |-> [c \in Containers |-> None],
              constraints |-> [c \in Containers |-> None],
              specs |-> [c \in Containers |-> None]]

NextAdd ==
    \E c \in Actors :
        \/ \E spec \in AddStrings : add(c, spec)
        \/ \E new_map \in RefMaps : update_reference(c, new_map)
        \/ read_yaml_list(c)
        \/ read_constraints(c)
        \/ read_specs(c)

SpecAdd == InitAdd /\ [][NextAdd]_vars

\* --------------------------------------------------- constructing a container

Int1 == [k |-> "int", n |-> 1]

\* The lists a container is constructed with: of strings, a reference, a
\* list and a matrix record, and with an int, None or a Spec object among
\* the elements.
ConstructLists ==
    { <<>>, <<sx>>, <<refL, MatrixP>>, <<L(<<sy>>)>>,
      <<Int1>>, <<sx, None>>, <<SpecOf(sx), sx>>, <<MatrixP, Int1>> }

\* The reference maps a container is constructed with.
ConstructMaps == { <<>>, << <<<<"L">>, "B">> >> }

\* What the caller appends to its list afterwards.
AppendArgs == {sy, Int1}

InitConstruct ==
    /\ yaml_list = [A |-> <<sx>>, B |-> <<sx, MatrixP>>, C |-> <<sz>>]
    /\ reference = [c \in Containers |-> <<>>]
    /\ expanded_list = [c \in Containers |-> None]
    /\ constraints = [c \in Containers |-> None]
    /\ specs = [c \in Containers |-> None]
    /\ heap = <<>>
    /\ given = NoList
    /\ last = [op |-> "init", c |-> "A", arg |-> None, err |-> "ok"]
    /\ pre = [yaml_list |-> yaml_list, reference |-> reference,
              expanded_list |-> [c \in Containers |-> None],
              constraints |-> [c \in Containers |-> None],
              specs |-> [c \in Containers |-> None]]

NextConstruct ==
    \/ \E c \in Actors :
          \/ \E xs \in ConstructLists, ref \in ConstructMaps :
                construct(c, xs, ref)
          \/ read_yaml_list(c)
          \/ read_constraints(c)
          \/ read_specs(c)
    \/ \E x \in AppendArgs : list_append(x)

SpecConstruct == InitConstruct /\ [][NextConstruct]_vars

\* ------------------------------------------------------- keys of tokens

\* The characters of the tokens: the ones the key looks for, a letter and
\* a blank.
KeyChars == {"^", "/", "%", "~", "-", "+", "@", "=", "a", " "}

\* ^dep+x=y
DepVariant == <<"^", "d", "e", "p", "+", "x", "=", "y">>

\* The tokens the key is taken of: every string of up to MaxToken
\* characters, and ^dep+x=y.
KeyTokens ==
    UNION { [1..n -> KeyChars] : n \in 0..MaxToken } \cup {DepVariant}

\* A token is given.
InitKey ==
    /\ yaml_list = [A |-> <<sx>>, B |-> <<sx, MatrixP>>, C |-> <<sz>>]
    /\ reference = [c \in Containers |-> <<>>]
    /\ expanded_list = [c \in Containers |-> None]
    /\ constraints = [c \in Containers |-> None]
    /\ specs = [c \in Containers |-> None]
    /\ heap = <<>>
    /\ given = NoList
    /\ \E s \in KeyTokens :
          last = [op |-> "token", c |-> "A", arg |-> S(s), err |-> "ok"]
    /\ pre = [yaml_list |-> yaml_list, reference |-> reference,
              expanded_list |-> [c \in Containers |-> None],
              constraints |-> [c \in Containers |-> None],
              specs |-> [c \in Containers |-> None]]

\* key = spec_ordering_key(s), for the token s given.
take_key ==
    /\ last.op = "token"
    /\ last' = [op |-> "spec_ordering_key", c |-> "A", arg |-> last.arg,
                err |-> "ok", ret |-> spec_ordering_key(last.arg.s)]
    /\ pre' = Snapshot
    /\ UNCHANGED <<yaml_list, reference, expanded_list, constraints, specs,
                   heap, given>>

NextKey == take_key

SpecKey == InitKey /\ [][NextKey]_vars

\* ----------------------------------------------------------- cpus_available

PyInt(n) == [k |-> "int", n |-> n]

DigitChars == <<"0", "1", "2", "3", "4", "5", "6", "7", "8", "9">>

IsDigit(ch) == \E d \in 1..10 : DigitChars[d] = ch

DigitVal(ch) == (CHOOSE d \in 1..10 : DigitChars[d] = ch) - 1

RECURSIVE LStrip(_)
LStrip(s) == IF Len(s) > 0 /\ s[1] = " " THEN LStrip(Tail(s)) ELSE s

RECURSIVE RStrip(_)
RStrip(s) ==
    IF Len(s) > 0 /\ s[Len(s)] = " " THEN RStrip(SubSeq(s, 1, Len(s) - 1))
    ELSE s

\* str.strip()
Strip(s) == RStrip(LStrip(s))

RECURSIVE DigitsValue(_, _)
\* The number the digits of s denote, behind the number acc of those read.
DigitsValue(s, acc) ==
    IF Len(s) = 0 THEN acc
    ELSE DigitsValue(Tail(s), 10 * acc + DigitVal(s[1]))

\* int(s) of a stripped s: an optional sign and one digit or more give
\* the number, anything else is a ValueError.
int(s) ==
    LET signed == Len(s) > 0 /\ s[1] \in {"+", "-"}
        digits == IF signed THEN Tail(s) ELSE s
    IN IF Len(digits) = 0 \/ \E i \in 1..Len(digits) : ~ IsDigit(digits[i])
       THEN [err |-> "ValueError", val |-> 0]
       ELSE [err |-> "ok",
             val |-> IF signed /\ s[1] = "-"
                     THEN 0 - DigitsValue(digits, 0)
                     ELSE DigitsValue(digits, 0)]

\* The value of a variable that is not set.
Unset == [k |-> "unset"]

\* A slip: a zero or negative value is returned as it is.
get_omp_var_any(environ, name, default) ==
    IF environ[name] = Unset THEN default
    ELSE IF int(Strip(environ[name].s)).err # "ok" THEN default
    ELSE PyInt(int(Strip(environ[name].s)).val)

\* get_omp_var(name, default)
get_omp_var(environ, name, default) ==
    IF environ[name] = Unset THEN default
    ELSE IF int(Strip(environ[name].s)).err # "ok" THEN default
    ELSE IF int(Strip(environ[name].s)).val <= 0 THEN default
    ELSE PyInt(int(Strip(environ[name].s)).val)

Min(a, b) == IF a <= b THEN a ELSE b

\* Lines 42-46: the detected count cpus under the limit.
capped_cpus(cpus, limit) ==
    IF limit # None /\ limit.n # 0 THEN Min(cpus, limit.n) ELSE cpus

\* Lines 38-41, limit and ompnum having been read.
omp_result(cpus, limit, ompnum) ==
    IF ompnum # None /\ ompnum.n # 0
    THEN IF limit # None /\ limit.n # 0 THEN Min(ompnum.n, limit.n)
         ELSE ompnum.n
    ELSE capped_cpus(cpus, limit)

\* cpus_available(omp), the environment being environ and the count of
\* os.sched_getaffinity or multiprocessing.cpu_count being cpus.
cpus_available(omp, environ, cpus) ==
    IF omp
    THEN omp_result(cpus, get_omp_var(environ, "OMP_THREAD_LIMIT", None),
                    get_omp_var(environ, "OMP_NUM_THREADS", None))
    ELSE capped_cpus(cpus, None)

\* The characters of the values of the variables.
EnvChars == {"5", "0", " ", "-", "x"}

\* "42", "  42  ", "  5 ", "+5", "  BAD  " and "  NaN "
EnvNamed ==
    { <<"4", "2">>, <<" ", " ", "4", "2", " ", " ">>, <<" ", " ", "5", " ">>,
      <<"+", "5">>, <<" ", " ", "B", "A", "D", " ", " ">>,
      <<" ", " ", "N", "a", "N", " ">> }

\* What a variable is: not set, or a string of up to MaxEnv characters, or
\* one of the strings named.
EnvValues ==
    {Unset} \cup { S(s) : s \in UNION { [1..n -> EnvChars] : n \in 0..MaxEnv }
                                   \cup EnvNamed }

\* The counts of CPUs detected.
CpuCounts == {3, 10}

\* An environment, a number of CPUs and a flag are given.
InitCpus ==
    /\ yaml_list = [A |-> <<sx>>, B |-> <<sx, MatrixP>>, C |-> <<sz>>]
    /\ reference = [c \in Containers |-> <<>>]
    /\ expanded_list = [c \in Containers |-> None]
    /\ constraints = [c \in Containers |-> None]
    /\ specs = [c \in Containers |-> None]
    /\ heap = <<>>
    /\ given = NoList
    /\ \E omp \in BOOLEAN, cpus \in CpuCounts,
          num \in EnvValues, lim \in EnvValues :
          last = [op |-> "environ", c |-> "A", err |-> "ok",
                  arg |-> [omp |-> omp, cpus |-> cpus,
                           environ |-> [OMP_NUM_THREADS |-> num,
                                        OMP_THREAD_LIMIT |-> lim]]]
    /\ pre = [yaml_list |-> yaml_list, reference |-> reference,
              expanded_list |-> [c \in Containers |-> None],
              constraints |-> [c \in Containers |-> None],
              specs |-> [c \in Containers |-> None]]

\* n = cpus_available(omp), for the environment given.
take_cpus ==
    /\ last.op = "environ"
    /\ last' = [op |-> "cpus_available", c |-> "A", arg |-> last.arg,
                err |-> "ok",
                ret |-> cpus_available(last.arg.omp, last.arg.environ,
                                       last.arg.cpus)]
    /\ pre' = Snapshot
    /\ UNCHANGED <<yaml_list, reference, expanded_list, constraints, specs,
                   heap, given>>

NextCpus == take_cpus

SpecCpus == InitCpus /\ [][NextCpus]_vars

\* ------------------------------------------- changing a list that is named

\* The container whose lists are changed while A, which names it L, is read.
Named == "B"

\* SpecList.__init__ of A = [$L] or [y, $L] with the map {L: B}
InitNamed ==
    /\ yaml_list \in [A : { <<refL>>, <<sy, refL>> },
                       B : { <<sx>>, <<>> },
                       C : { <<sz>> }]
    /\ reference = [A |-> << <<<<"L">>, Named>> >>, B |-> <<>>, C |-> <<>>]
    /\ expanded_list = [c \in Containers |-> None]
    /\ constraints = [c \in Containers |-> None]
    /\ specs = [c \in Containers |-> None]
    /\ heap = <<>>
    /\ given = NoList
    /\ last = [op |-> "init", c |-> "A", arg |-> None, err |-> "ok"]
    /\ pre = [yaml_list |-> yaml_list, reference |-> reference,
              expanded_list |-> [c \in Containers |-> None],
              constraints |-> [c \in Containers |-> None],
              specs |-> [c \in Containers |-> None]]

NextNamed ==
    \/ \E c \in Actors :
          \/ read_yaml_list(c)
          \/ read_constraints(c)
          \/ read_specs(c)
    \/ \E spec \in AddArgs : add(Named, spec)
    \/ \E spec \in RemoveArgs : remove(Named, spec)
    \/ \E copy_reference \in BOOLEAN : extend(Named, "C", copy_reference)

SpecNamed == InitNamed /\ [][NextNamed]_vars

\* ------------------------------------------------- maps that close a circle

\* The maps A is given by update_reference: L is A itself, B, C, or absent.
CycleMaps ==
    { <<>>, << <<<<"L">>, "A">> >>, << <<<<"L">>, "B">> >>,
      << <<<<"L">>, "C">> >> }

\* SpecList.__init__ of A and B, B naming A or C as L
InitCycle ==
    /\ yaml_list \in [A : { <<refL>>, <<sx, refLdep>> },
                       B : { <<refL>>, <<sy>>, <<sy, refL>> },
                       C : { <<sz>> }]
    /\ reference \in [A : { <<>> },
                       B : { << <<<<"L">>, "A">> >>, << <<<<"L">>, "C">> >> },
                       C : { <<>> }]
    /\ expanded_list = [c \in Containers |-> None]
    /\ constraints = [c \in Containers |-> None]
    /\ specs = [c \in Containers |-> None]
    /\ heap = <<>>
    /\ given = NoList
    /\ last = [op |-> "init", c |-> "A", arg |-> None, err |-> "ok"]
    /\ pre = [yaml_list |-> yaml_list, reference |-> reference,
              expanded_list |-> [c \in Containers |-> None],
              constraints |-> [c \in Containers |-> None],
              specs |-> [c \in Containers |-> None]]

NextCycle ==
    \E c \in Actors :
        \/ \E new_map \in CycleMaps : update_reference(c, new_map)
        \/ read_yaml_list(c)
        \/ read_constraints(c)
        \/ read_specs(c)

SpecCycle == InitCycle /\ [][NextCycle]_vars

\* ------------------------------------------------------------------ claims

\* v is None
IsNone(v) == v.k = "none"

\* C1: right after add the constraints and specs caches are stale; right
\* after a successful remove, an extend or an update_reference all three
\* caches are stale, whatever they held before.
C1_MutatorsInvalidate ==
    /\ last.op = "add" =>
          IsNone(constraints[last.c]) /\ IsNone(specs[last.c])
    /\ (last.op \in {"remove", "extend", "update_reference"}
           /\ last.err = "ok") =>
          /\ IsNone(expanded_list[last.c])
          /\ IsNone(constraints[last.c])
          /\ IsNone(specs[last.c])

\* A remove succeeded on a container whose three caches were all filled.
C1_Witness ==
    /\ last.op = "remove" /\ last.err = "ok"
    /\ ~ IsNone(pre.expanded_list[last.c])
    /\ ~ IsNone(pre.constraints[last.c])
    /\ ~ IsNone(pre.specs[last.c])
    /\ IsNone(expanded_list[last.c])

\* C2: add appends str(spec) to the raw list; a cached expanded view stays
\* cached and gets the same string appended behind its unchanged earlier
\* elements; a stale expanded view stays stale.
C2_AddAppends ==
    last.op = "add" =>
      LET c == last.c
          s == S(PyStr(last.arg))
      IN /\ yaml_list[c] = Append(pre.yaml_list[c], s)
         /\ IF IsNone(pre.expanded_list[c])
            THEN IsNone(expanded_list[c])
            ELSE Deep(expanded_list[c], heap)
                   = L(Append(pre.expanded_list[c].xs, s))

\* A parsed Spec was added to a container whose cached expanded view held
\* spliced elements, a matrix record among them.
C2_Witness ==
    /\ last.op = "add" /\ last.arg.k = "spec"
    /\ ~ IsNone(pre.expanded_list[last.c])
    /\ \E i \in 1..Len(pre.expanded_list[last.c].xs) :
           pre.expanded_list[last.c].xs[i].k = "dict"
    /\ Len(expanded_list[last.c].xs) = Len(pre.expanded_list[last.c].xs) + 1

ReadOps == {"specs_as_yaml_list", "specs_as_constraints", "specs"}

\* The sigil and the name a reference string "$name", "$^name" or "$%name"
\* carries.
RefSigil(s) == IF Len(s) >= 2 /\ s[2] \in {"^", "%"} THEN <<s[2]>> ELSE <<>>

RefName(s) == SubSeq(s, 2 + Len(RefSigil(s)), Len(s))

IsRefStr(e) == IsStr(e) /\ StartsWith(e.s, "$")

\* A matrix record without its sigil key; any other value as it is.
NoSigil(v) ==
    IF v.k = "dict"
    THEN D(SelectSeq(v.items, LAMBDA kv : kv[1] # "sigil"))
    ELSE v

RECURSIVE ExpectedView(_, _, _)
\* What the raw list ys expands to when its references are resolved in map
\* m against the views the named containers hold now: a reference gives the
\* elements of the named view, strings carrying its sigil and matrix records
\* taken without their sigil key. (No matrix record of ys holds a reference.)
ExpectedView(ys, m, i) ==
    IF i > Len(ys) THEN <<>>
    ELSE (IF IsRefStr(ys[i])
          THEN LET view == Deep(expanded_list[DictGet(m, RefName(ys[i].s), "")],
                                heap).xs
               IN [j \in 1..Len(view) |->
                     IF IsStr(view[j])
                     THEN S(RefSigil(ys[i].s) \o view[j].s)
                     ELSE NoSigil(view[j])]
          ELSE <<ys[i]>>)
         \o ExpectedView(ys, m, i + 1)

\* The expanded view the container of the last call holds resolves the
\* references of its raw list in its reference map.
ResolvedInOwnMap ==
    LET c == last.c
        m == reference[c]
        ys == yaml_list[c]
        undefined == \E i \in 1..Len(ys) :
                        IsRefStr(ys[i]) /\ ~ DictHas(m, RefName(ys[i].s))
    IN IF undefined
       THEN IsNone(expanded_list[c]) /\ last.err = "UndefinedReferenceError"
       ELSE /\ ~ IsNone(expanded_list[c])
            /\ LET got == Deep(expanded_list[c], heap).xs IN
               [j \in 1..Len(got) |-> NoSigil(got[j])] = ExpectedView(ys, m, 1)

\* C3: a read of specs, specs_as_yaml_list or specs_as_constraints that
\* follows update_reference(new_map) resolves every reference of the raw
\* list against new_map (an undefined name is reported), whatever was cached
\* before the call.
C3_ReadAfterUpdateUsesNewMap ==
    [][(last.op = "update_reference" /\ last'.op \in ReadOps
            /\ last'.c = last.c)
          => (reference'[last.c] = last.arg.m /\ ResolvedInOwnMap')]_vars

\* specs was read with every cache stale, under a map that names C where
\* the container was constructed with a map naming B, and the element of C
\* is in the view.
C3_Witness ==
    /\ last.op = "specs" /\ last.err = "ok"
    /\ IsNone(pre.expanded_list[last.c])
    /\ reference[last.c] = << <<<<"L">>, "C">> >>
    /\ \E i \in 1..Len(yaml_list[last.c]) : yaml_list[last.c][i] = refL
    /\ \E i \in 1..Len(expanded_list[last.c].xs) :
           expanded_list[last.c].xs[i] = sz


\* The raw entry e is a plain string, not a reference, whose parse equals
\* the parse of spec.
PlainEqual(e, spec) ==
    /\ IsStr(e)
    /\ (Len(e.s) = 0 \/ e.s[1] # "$")
    /\ Tokens(PyStr(e)) = Tokens(PyStr(spec))

\* The places of ys that hold a plain entry equal to spec.
PlainMatches(ys, spec) == {i \in 1..Len(ys) : PlainEqual(ys[i], spec)}

\* C4: from well-formed lists (those of InitLists hold no two plain entries
\* equal as parsed constraints), whatever add, remove, extend and
\* update_reference calls came before, remove(spec) finds at most one
\* matching raw entry, so its multiple-match assertion never fails.
C4_RemoveFindsAtMostOne ==
    last.op = "remove" =>
        /\ Cardinality(PlainMatches(pre.yaml_list[last.c], last.arg)) <= 1
        /\ last.err # "AssertionError"

\* C5: when exactly one raw entry is a plain string equal, as a parsed
\* constraint, to spec, remove(spec) succeeds and the raw list becomes the
\* former list without that one entry, every other entry in place and order.
C5_RemoveDeletesExactlyThatEntry ==
    (last.op = "remove"
        /\ Cardinality(PlainMatches(pre.yaml_list[last.c], last.arg)) = 1) =>
      LET old == pre.yaml_list[last.c]
          i == CHOOSE n \in PlainMatches(old, last.arg) : TRUE
      IN /\ last.err = "ok"
         /\ Len(yaml_list[last.c]) = Len(old) - 1
         /\ yaml_list[last.c]
              = SubSeq(old, 1, i - 1) \o SubSeq(old, i + 1, Len(old))

\* remove took the one plain match from the middle of a list that holds a
\* reference before it and a matrix record behind it.
C5_Witness ==
    /\ last.op = "remove" /\ last.err = "ok"
    /\ pre.yaml_list[last.c] = <<refL, sy, MatrixP>>
    /\ yaml_list[last.c] = <<refL, MatrixP>>

\* C6: when no raw entry is a plain non-reference string equal to spec,
\* remove(spec) fails with SpecListError and leaves the raw list, the
\* reference map and the three caches as they were; a spec that is only a
\* combo of a matrix record, or only an element of a referenced list, is such
\* a case.
C6_RemoveAbsentFailsUnchanged ==
    (last.op = "remove"
        /\ PlainMatches(pre.yaml_list[last.c], last.arg) = {}) =>
      /\ last.err = "SpecListError"
      /\ yaml_list = pre.yaml_list
      /\ reference = pre.reference
      /\ [c \in Containers |-> Deep(expanded_list[c], heap)]
            = pre.expanded_list
      /\ constraints = pre.constraints
      /\ specs = pre.specs

\* remove("p+a") failed on a container whose caches were filled and whose
\* specs hold p+a as a combo of its matrix record, and x as an element of
\* the list it refers to, neither being a plain raw entry.
C6_Witness ==
    /\ last.op = "remove" /\ last.err = "SpecListError"
    /\ last.arg = S(<<"p", "+", "a">>)
    /\ yaml_list[last.c] = <<refL, sy, MatrixP>>
    /\ ~ IsNone(expanded_list[last.c])
    /\ ~ IsNone(constraints[last.c])
    /\ ~ IsNone(specs[last.c])
    /\ \E i \in 1..Len(specs[last.c].xs) :
           SpecEq(specs[last.c].xs[i], SpecOf(last.arg))
    /\ \E i \in 1..Len(specs[last.c].xs) :
           SpecEq(specs[last.c].xs[i], SpecOf(sx))

\* The elements a raw list of strings ys gives when every reference is
\* resolved in map m, each with the sigil of the occurrence it came through:
\* a sequence of [base, sigil], base being the element as the named
\* container's view holds it, or the plain string itself with no sigil.
RECURSIVE Occurrences(_, _, _)
Occurrences(ys, m, i) ==
    IF i > Len(ys) THEN <<>>
    ELSE (IF IsRefStr(ys[i])
          THEN LET view == Deep(expanded_list[DictGet(m, RefName(ys[i].s), "")],
                                heap).xs
               IN [j \in 1..Len(view) |->
                     [base |-> view[j], sigil |-> RefSigil(ys[i].s)]]
          ELSE << [base |-> ys[i], sigil |-> <<>>] >>)
         \o Occurrences(ys, m, i + 1)

\* The element got is the element occ.base carrying the sigil occ.sigil and no
\* other: a string prefixed with it, a matrix record whose sigil field is it
\* (no sigil field, or an empty one, when there is none).
CarriesSigil(got, occ) ==
    IF IsStr(occ.base)
    THEN got = S(occ.sigil \o occ.base.s)
    ELSE /\ got.k = "dict"
         /\ NoSigil(got) = NoSigil(occ.base)
         /\ DictGet(got.items, "sigil", S(<<>>)).s = occ.sigil

\* C7: in the view of a list of plain strings and references, every element
\* spliced from a reference carries the sigil of that occurrence (strings
\* prefixed, matrix records with that sigil field), and the elements of a
\* bare reference carry none.
C7_EachOccurrenceCarriesItsSigil ==
    (last.op \in ReadOps /\ last.err = "ok"
        /\ \A i \in 1..Len(yaml_list[last.c]) : IsStr(yaml_list[last.c][i])) =>
      LET got == Deep(expanded_list[last.c], heap).xs
          occ == Occurrences(yaml_list[last.c], reference[last.c], 1)
      IN /\ Len(got) = Len(occ)
         /\ \A j \in 1..Len(got) : CarriesSigil(got[j], occ[j])

\* A raw entry of ys is a matrix record with a sigil key.
HoldsSigilRecord(ys) ==
    \E i \in 1..Len(ys) : ys[i].k = "dict" /\ DictHas(ys[i].items, "sigil")

\* C8: a container whose raw list holds a matrix record with a sigil key is
\* read through specs_as_yaml_list and specs_as_constraints without an
\* error, and every combo of its constraints starts with the sigil.
C8_RawSigilRecordReadable ==
    (last.op \in {"specs_as_yaml_list", "specs_as_constraints"}
        /\ HoldsSigilRecord(yaml_list[last.c])) =>
      /\ last.err = "ok"
      /\ (last.op = "specs_as_constraints"
            /\ yaml_list[last.c] = <<MatrixSigil>>) =>
            \A n \in 1..Len(constraints[last.c].xs) :
                StartsWith(PyStr(constraints[last.c].xs[n][1]), "^")

RECURSIVE HoldsReference(_)
\* A string beginning with "$" lies somewhere inside the raw value v.
HoldsReference(v) ==
    IF IsStr(v) THEN StartsWith(v.s, "$")
    ELSE IF v.k = "list" THEN \E i \in 1..Len(v.xs) : HoldsReference(v.xs[i])
    ELSE IF v.k = "dict"
    THEN \E i \in 1..Len(v.items) : HoldsReference(v.items[i][2])
    ELSE FALSE

RECURSIVE HoldsUndefined(_, _)
\* A reference to a name that map m does not hold lies inside the raw value v.
HoldsUndefined(v, m) ==
    IF IsStr(v) THEN StartsWith(v.s, "$") /\ ~ DictHas(m, RefName(v.s))
    ELSE IF v.k = "list"
    THEN \E i \in 1..Len(v.xs) : HoldsUndefined(v.xs[i], m)
    ELSE IF v.k = "dict"
    THEN \E i \in 1..Len(v.items) : HoldsUndefined(v.items[i][2], m)
    ELSE FALSE

RECURSIVE Unsigiled(_)
\* v with the sigil key taken off every matrix record in it.
Unsigiled(v) ==
    IF v.k = "list" THEN L([i \in 1..Len(v.xs) |-> Unsigiled(v.xs[i])])
    ELSE IF v.k = "dict"
    THEN LET kept == SelectSeq(v.items, LAMBDA kv : kv[1] # "sigil")
         IN D([i \in 1..Len(kept) |-> <<kept[i][1], Unsigiled(kept[i][2])>>])
    ELSE v

RECURSIVE Resolved(_, _)
RECURSIVE ResolvedItems(_, _, _)
\* The raw value v with every reference in it, those inside matrix records
\* included, replaced by the elements of the named container's view, its
\* strings prefixed with the sigil of the reference.
Resolved(v, m) ==
    IF v.k = "list" THEN L(ResolvedItems(v.xs, m, 1))
    ELSE IF v.k = "dict"
    THEN D([i \in 1..Len(v.items) |->
              <<v.items[i][1], Resolved(v.items[i][2], m)>>])
    ELSE v

ResolvedItems(xs, m, i) ==
    IF i > Len(xs) THEN <<>>
    ELSE (IF IsRefStr(xs[i])
          THEN LET view == Deep(expanded_list[DictGet(m, RefName(xs[i].s), "")],
                                heap).xs
               IN [j \in 1..Len(view) |->
                     IF IsStr(view[j])
                     THEN S(RefSigil(xs[i].s) \o view[j].s)
                     ELSE view[j]]
          ELSE IF IsStr(xs[i]) THEN <<xs[i]>>
          ELSE <<Resolved(xs[i], m)>>)
         \o ResolvedItems(xs, m, i + 1)

\* The raw entries of ys that are matrix records holding a reference.
ReferringRecords(ys) ==
    {i \in 1..Len(ys) : ys[i].k = "dict" /\ HoldsReference(ys[i])}

KeysAscending(ts) ==
    \A i, j \in 1..Len(ts) :
        i < j => spec_ordering_key(ts[i].s) <= spec_ordering_key(ts[j].s)

\* The tokens of ts with key n, in the order ts holds them.
WithKey(ts, n) == SelectSeq(ts, LAMBDA t : spec_ordering_key(t.s) = n)

\* ts holds the tokens of the tuple, those of equal key in the tuple's order.
TiesKeepOrder(ts, tuple) == \A n \in 1..5 : WithKey(ts, n) = WithKey(tuple, n)

\* The combos the matrix record h of the heap emits as token strings.
EmittedBy(h) == expand_matrix_constraints(Ref(h), heap, FALSE)

\* The tuples of the Cartesian product of the expanded rows of record h.
TuplesOf(h) ==
    Product(expand_rows(DictGet(heap[h], "matrix", L(<<>>)).xs, heap, 1,
                        [ret |-> <<>>, err |-> "ok"]).ret)

\* The sigil held by record h, empty when it holds none.
SigilOf(h) == DictGet(heap[h], "sigil", S(<<>>)).s

\* The combo without the sigil that was put in front of its first token.
SigilOff(combo, sigil) ==
    IF sigil = <<>> \/ Len(combo) = 0 THEN combo
    ELSE [combo EXCEPT ![1] = S(SubSeq(@.s, Len(sigil) + 1, Len(@.s)))]

\* C10 as stated: for every matrix record, whatever its rows, exclude list
\* and sigil, the tokens of every emitted combo are in non-decreasing key
\* order, tokens of equal key in the order of the product tuple.
C10_EmittedTokensSorted ==
    \A h \in 1..Len(heap) :
        EmittedBy(h).err = "ok" =>
            \A n \in 1..Len(EmittedBy(h).res) :
                /\ KeysAscending(EmittedBy(h).res[n])
                /\ \E t \in 1..Len(TuplesOf(h)) :
                       TiesKeepOrder(EmittedBy(h).res[n], TuplesOf(h)[t])

\* C10, amended: the tokens are sorted before the sigil is put in front of
\* the first one. For every matrix record, every emitted combo with the
\* record's sigil taken off its first token is in non-decreasing key order,
\* tokens of equal key in the order of the product tuple; with a sigil the
\* first emitted token has the sigil's key, which may exceed the next one's.
C10_SortedBeforeSigil ==
    \A h \in 1..Len(heap) :
        EmittedBy(h).err = "ok" =>
            \A n \in 1..Len(EmittedBy(h).res) :
                /\ KeysAscending(SigilOff(EmittedBy(h).res[n], SigilOf(h)))
                /\ \E t \in 1..Len(TuplesOf(h)) :
                       TiesKeepOrder(SigilOff(EmittedBy(h).res[n], SigilOf(h)),
                                     TuplesOf(h)[t])

\* The constraints of A were read through $^L, L holding the record with
\* rows [+a, %g], [p], [@1, ~b]: the record got the sigil ^, the tuple
\* (+a, p, @1) was emitted as ^p +a @1, the two tokens of key 2 in tuple
\* order behind a first token of key 5.
C10_Witness ==
    /\ last.op = "specs_as_constraints" /\ last.err = "ok" /\ last.c = "A"
    /\ yaml_list["A"] = <<refLdep>>
    /\ \E h \in 1..Len(heap) :
          /\ SigilOf(h) = <<"^">>
          /\ \E n \in 1..Len(EmittedBy(h).res) :
                EmittedBy(h).res[n]
                  = <<S(<<"^", "p">>), S(<<"+", "a">>), S(<<"@", "1">>)>>
    /\ \E n \in 1..Len(constraints["A"].xs) :
          constraints["A"].xs[n]
            = <<SpecOf(S(<<"^", "p">>)), SpecOf(S(<<"+", "a">>)),
                SpecOf(S(<<"@", "1">>))>>

\* Every name the references of the raw list of the last container carry
\* is a name of the map m.
AllDefinedIn(m) == ~ HoldsUndefined(L(yaml_list[last.c]), m)

\* The read that just ended was of a container that has, in its raw list, a
\* reference naming a list its map does not hold.
ReadOfUndefined ==
    /\ last.op \in ReadOps
    /\ HoldsUndefined(L(yaml_list[last.c]), reference[last.c])

\* C11: a container may hold a reference whose name its map lacks (nothing
\* is looked up at construction); a read of such a container
\* fails with UndefinedReferenceError and leaves its three caches stale, and
\* the read that follows update_reference with a map holding every name the
\* raw list refers to succeeds.
C11_UndefinedReferenceIsLazy ==
    /\ [](ReadOfUndefined =>
            /\ last.err = "UndefinedReferenceError"
            /\ IsNone(expanded_list[last.c])
            /\ IsNone(constraints[last.c])
            /\ IsNone(specs[last.c]))
    /\ [][(last.op = "update_reference" /\ last'.op \in ReadOps
              /\ last'.c = last.c /\ AllDefinedIn(last.arg.m))
            => last'.err = "ok"]_vars

RECURSIVE RawExpansion(_, _, _)
RECURSIVE RawExpansionItems(_, _, _, _)
\* What the raw value v of container c expands to, computed from the raw
\* lists alone: a reference gives the expansion of the raw list of the
\* container it names in c's map (its own references resolved in its own
\* map), strings prefixed with the sigil of the reference; n bounds the
\* length of a chain of references.
RawExpansion(v, c, n) ==
    IF v.k = "list" THEN L(RawExpansionItems(v.xs, c, n, 1))
    ELSE IF v.k = "dict"
    THEN D([i \in 1..Len(v.items) |->
              <<v.items[i][1], RawExpansion(v.items[i][2], c, n)>>])
    ELSE v

RawExpansionItems(xs, c, n, i) ==
    IF i > Len(xs) THEN <<>>
    ELSE (IF IsRefStr(xs[i])
          THEN IF n = 0 THEN <<>>
               ELSE LET b == DictGet(reference[c], RefName(xs[i].s), "")
                        elems == RawExpansion(L(yaml_list[b]), b, n - 1).xs
                    IN [j \in 1..Len(elems) |->
                          IF IsStr(elems[j])
                          THEN S(RefSigil(xs[i].s) \o elems[j].s)
                          ELSE elems[j]]
          ELSE IF IsStr(xs[i]) THEN <<xs[i]>>
          ELSE <<RawExpansion(xs[i], c, n)>>)
         \o RawExpansionItems(xs, c, n, i + 1)

\* C12: in the view a read returns, each reference of a list stands
\* replaced by the elements of the named container's expanded list, spliced
\* at its place in their order and not nested, every other string where it
\* was, every spliced string prefixed with ^ for $^name and % for $%name;
\* the named container's own references are resolved the same way first.
C12_ReferencesSplicedTransitively ==
    (last.op \in ReadOps /\ last.err = "ok") =>
        Unsigiled(Deep(expanded_list[last.c], heap))
          = Unsigiled(RawExpansion(L(yaml_list[last.c]), last.c, Fuel))

\* A, whose raw list is [y, $^L, x], was read while L names a container
\* whose raw list is [$%M, y] and M one whose raw list is [z]: the view is
\* [y, ^%z, ^y, x].
C12_Witness ==
    /\ last.op \in ReadOps /\ last.err = "ok" /\ last.c = "A"
    /\ yaml_list["A"] = <<sy, refLdep, sx>>
    /\ yaml_list["B"] = <<refMcomp, sy>>
    /\ expanded_list["A"]
         = L(<<sy, S(<<"^", "%", "z">>), S(<<"^", "y">>), sx>>)

\* The expanded rows of record h: each row flattened, sub-matrices expanded.
RowsOf(h) ==
    expand_rows(DictGet(heap[h], "matrix", L(<<>>)).xs, heap, 1,
                [ret |-> <<>>, err |-> "ok"]).ret

\* The exclusion constraints of record h.
ExcludesOf(h) == DictGet(heap[h], "exclude", L(<<>>)).xs

RECURSIVE TupleCount(_)
\* The number of tuples of the Cartesian product of rows.
TupleCount(rows) ==
    IF Len(rows) = 0 THEN 1 ELSE Len(Head(rows)) * TupleCount(Tail(rows))

RECURSIVE TupleAt(_, _)
\* Tuple number t of the Cartesian product of rows, counted from 1 with the
\* last row varying fastest.
TupleAt(rows, t) ==
    IF Len(rows) = 0 THEN <<>>
    ELSE <<Head(rows)[((t - 1) \div TupleCount(Tail(rows))) + 1]>>
         \o TupleAt(Tail(rows), ((t - 1) % TupleCount(Tail(rows))) + 1)

\* The spec parsed from the tokens joined by blanks satisfies one of the
\* exclusion constraints.
Dropped(tokens, excludes) ==
    \E i \in 1..Len(excludes) :
        LET joinedTokens == Join([j \in 1..Len(tokens) |-> tokens[j].s],
                                 <<" ">>)
        IN \A a \in 1..Len(Tokens(excludes[i].s)) :
               \E b \in 1..Len(Tokens(joinedTokens)) :
                   Tokens(joinedTokens)[b] = Tokens(excludes[i].s)[a]

\* The ordered tuples of record h that no exclusion drops, in product order.
Survivors(h) ==
    SelectSeq([t \in 1..TupleCount(RowsOf(h)) |->
                  sorted_combo(TupleAt(RowsOf(h), t))],
              LAMBDA ts : ~ Dropped(ts, ExcludesOf(h)))

\* C13: a matrix record emits, in Cartesian-product order (rows in row
\* order, the last row varying fastest), exactly the ordered tuples whose
\* blank-joined parse, taken before the sigil is prepended, satisfies none
\* of the record's exclusion constraints.
C13_DroppedIffExcluded ==
    \A h \in 1..Len(heap) :
        EmittedBy(h).err = "ok" =>
            [n \in 1..Len(EmittedBy(h).res) |->
                SigilOff(EmittedBy(h).res[n], SigilOf(h))] = Survivors(h)

\* The constraints of A were read through $^L, L holding the record with
\* rows [+a, %g], [p], [@1, ~b] and exclude [p~b]: of its four tuples the
\* first and the third are emitted, in that order and with the sigil, and
\* the two with ~b are dropped.
C13_Witness ==
    /\ last.op = "specs_as_constraints" /\ last.err = "ok" /\ last.c = "A"
    /\ yaml_list["A"] = <<refLdep>>
    /\ yaml_list["B"] = <<MatrixTies, sy>>
    /\ \E h \in 1..Len(heap) :
          /\ SigilOf(h) = <<"^">>
          /\ TupleCount(RowsOf(h)) = 4
          /\ EmittedBy(h).res
               = << <<S(<<"^", "p">>), S(<<"+", "a">>), S(<<"@", "1">>)>>,
                    <<S(<<"^", "p">>), S(<<"@", "1">>), S(<<"%", "g">>)>> >>

RECURSIVE CellCount(_, _)
\* The number of elements the cells from i on give a flattened row: one for
\* a string, those of its cells for a nested list, one per combination it
\* emits for a sub-matrix.
CellCount(cells, i) ==
    IF i > Len(cells) THEN 0
    ELSE (IF IsList(cells[i]) THEN CellCount(cells[i].xs, 1)
          ELSE IF IsDict(cells[i])
          THEN Len(expand_matrix_constraints(cells[i], heap, FALSE).res)
          ELSE 1)
         + CellCount(cells, i + 1)

RECURSIVE RowLengthProduct(_, _)
\* The product of the lengths of the flattened rows from i on: a row that
\* is a list counts its flattened cells, a row that is a string or a record
\* stands for rows of one element each.
RowLengthProduct(rows, i) ==
    IF i > Len(rows) THEN 1
    ELSE (IF IsList(rows[i]) THEN CellCount(rows[i].xs, 1) ELSE 1)
         * RowLengthProduct(rows, i + 1)

\* A cell of a row of record h is a sub-matrix.
HasSubMatrixCell(h) ==
    LET rows == DictGet(heap[h], "matrix", L(<<>>)).xs
    IN \E i \in 1..Len(rows) :
           IsList(rows[i]) /\ \E j \in 1..Len(rows[i].xs) : IsDict(rows[i].xs[j])

\* C14: a matrix record whose exclude list is empty emits as many combos as
\* the product of the lengths of its flattened rows, a sub-matrix in a row
\* counting one element per combination it emits; an empty row makes that
\* product, and the number of combos, zero.
C14_ComboCountIsRowProduct ==
    \A h \in 1..Len(heap) :
        (ExcludesOf(h) = <<>> /\ EmittedBy(h).err = "ok") =>
            Len(EmittedBy(h).res)
              = RowLengthProduct(DictGet(heap[h], "matrix", L(<<>>)).xs, 1)

\* The constraints of A = [y, {matrix: [[$^L], [p]]}] were read, L holding
\* [x, {matrix: [[p], [+a, ~a]]}]: the record of A has no exclude list, its
\* first row holds ^x and a sub-matrix of two combinations, and it emits
\* three combos.
C14_Witness ==
    /\ last.op = "specs_as_constraints" /\ last.err = "ok" /\ last.c = "A"
    /\ yaml_list["A"] = <<sy, MatrixRefDep>>
    /\ yaml_list["B"] = <<sx, MatrixP>>
    /\ \E h \in 1..Len(heap) :
          /\ ExcludesOf(h) = <<>>
          /\ HasSubMatrixCell(h)
          /\ Len(EmittedBy(h).res) = 3

\* What record h emits when its sigil key is taken away.
EmittedWithoutSigil(h) ==
    matrix_of_items(SelectSeq(heap[h], LAMBDA kv : kv[1] # "sigil"), heap,
                    FALSE)

\* The combo with the sigil in front of its first token.
SigilOn(combo, sigil) == [combo EXCEPT ![1] = S(sigil \o @.s)]

\* C15: a matrix record with a non-empty sigil emits the combos it would
\* emit without the sigil, in the same number and order, each with the
\* sigil in front of its first token and every other token unchanged; none
\* of them, taken without the sigil, satisfies an exclusion constraint.
C15_SigilOnFirstTokenOnly ==
    \A h \in 1..Len(heap) :
        (SigilOf(h) # <<>> /\ EmittedBy(h).err = "ok") =>
            /\ EmittedWithoutSigil(h).err = "ok"
            /\ Len(EmittedBy(h).res) = Len(EmittedWithoutSigil(h).res)
            /\ \A n \in 1..Len(EmittedBy(h).res) :
                  /\ EmittedBy(h).res[n]
                       = SigilOn(EmittedWithoutSigil(h).res[n], SigilOf(h))
                  /\ ~ Dropped(EmittedWithoutSigil(h).res[n], ExcludesOf(h))

\* A = [y, $^L, x] was read, L holding the record with rows [+a, %g], [p],
\* [@1, ~b] and exclude [p~b]: the record carries the sigil ^, two of its
\* four tuples are emitted, both beginning with ^p and going on with
\* tokens that carry no sigil.
C15_Witness ==
    /\ last.op \in ReadOps /\ last.err = "ok" /\ last.c = "A"
    /\ yaml_list["A"] = <<sy, refLdep, sx>>
    /\ yaml_list["B"] = <<MatrixTies, sy>>
    /\ \E h \in 1..Len(heap) :
          /\ SigilOf(h) = <<"^">>
          /\ Len(EmittedBy(h).res) = 2
          /\ \A n \in 1..2 :
                /\ EmittedBy(h).res[n][1] = S(<<"^", "p">>)
                /\ EmittedBy(h).res[n][2] = EmittedWithoutSigil(h).res[n][2]
                /\ EmittedBy(h).res[n][3] = EmittedWithoutSigil(h).res[n][3]

\* The composite tokens of sub-matrix d: the tokens of each combination it
\* emits, in their order, joined by blanks into one string.
Composites(d) ==
    LET inner == expand_matrix_constraints(d, heap, FALSE).res
    IN [j \in 1..Len(inner) |->
          S(Join([a \in 1..Len(inner[j]) |-> inner[j][a].s], <<" ">>))]

RECURSIVE FlatCells(_, _)
\* The flattened row the cells from i on give: a string is one token, a
\* nested list gives the tokens of its cells, a sub-matrix its composites.
FlatCells(cells, i) ==
    IF i > Len(cells) THEN <<>>
    ELSE (IF IsList(cells[i]) THEN FlatCells(cells[i].xs, 1)
          ELSE IF IsDict(cells[i]) THEN Composites(cells[i])
          ELSE <<cells[i]>>)
         \o FlatCells(cells, i + 1)

RECURSIVE FlatRows(_, _)
\* The rows of the product, from row i of the record on: a list gives its
\* flattened row, a string a row of itself, a record one row per composite.
FlatRows(rows, i) ==
    IF i > Len(rows) THEN <<>>
    ELSE (IF IsList(rows[i]) THEN << FlatCells(rows[i].xs, 1) >>
          ELSE IF IsDict(rows[i])
          THEN [j \in 1..Len(Composites(rows[i])) |->
                  << Composites(rows[i])[j] >>]
          ELSE << <<rows[i]>> >>)
         \o FlatRows(rows, i + 1)

\* The rows of record h with every sub-matrix turned into its composites.
CompositeRows(h) == FlatRows(DictGet(heap[h], "matrix", L(<<>>)).xs, 1)

\* C16: in the combos of a record that has a sub-matrix in a row, each
\* combination of the sub-matrix is one token, its ordered tokens joined by
\* blanks; every emitted combo has one token per row, placed by the key of
\* the whole token, so no other token stands among the tokens of a
\* composite and these keep their order.
C16_SubMatrixIsOneToken ==
    \A h \in 1..Len(heap) :
        (HasSubMatrixCell(h) /\ EmittedBy(h).err = "ok") =>
            \A n \in 1..Len(EmittedBy(h).res) :
                \E t \in 1..TupleCount(CompositeRows(h)) :
                    LET e == SigilOff(EmittedBy(h).res[n], SigilOf(h))
                        tuple == TupleAt(CompositeRows(h), t)
                    IN /\ Len(e) = Len(tuple)
                       /\ KeysAscending(e)
                       /\ TiesKeepOrder(e, tuple)

\* The record {matrix: [[{matrix: [[+a], [%g, ^d]]}, q], [@1, p]], ...} was
\* expanded: the combo of the composite "+a ^d" and @1 keeps ^d in front of
\* @1, and the combo of "+a %g" and p has p first.
C16_Witness ==
    /\ last.op = "specs_as_constraints" /\ last.err = "ok"
    /\ \E h \in 1..Len(heap) :
          /\ HasSubMatrixCell(h)
          /\ \E n \in 1..Len(EmittedBy(h).res) :
                EmittedBy(h).res[n]
                  = <<S(<<"+", "a", " ", "^", "d">>), S(<<"@", "1">>)>>
          /\ \E n \in 1..Len(EmittedBy(h).res) :
                EmittedBy(h).res[n]
                  = <<S(<<"p">>), S(<<"+", "a", " ", "%", "g">>)>>

\* C17: the constructor fails with ValueError exactly when an element of
\* the given list is not a str, a list or a dict; when it succeeds the raw
\* list holds the given elements in order in a list object of its own, which
\* a later append to the given list does not reach, and the three caches
\* are None.
C17_ConstructorValidatesAndCopies ==
    /\ [](last.op = "__init__" =>
            /\ last.err \in {"ok", "ValueError"}
            /\ (last.err = "ValueError") <=>
                  (\E i \in 1..Len(last.arg.xs) :
                       last.arg.xs[i].k \notin {"str", "list", "dict"})
            /\ (last.err = "ok") =>
                  /\ yaml_list[last.c] = last.arg.xs
                  /\ IsNone(expanded_list[last.c])
                  /\ IsNone(constraints[last.c])
                  /\ IsNone(specs[last.c]))
    /\ [][last'.op = "list.append" => yaml_list' = yaml_list]_vars

\* A container was constructed from [$L, {matrix: ...}], and the caller then
\* appended an int to the list it gave.
C17_Witness ==
    /\ last.op = "list.append"
    /\ last.arg = Int1
    /\ yaml_list["A"] = <<refL, MatrixP>>
    /\ given.xs = <<refL, MatrixP, Int1>>
    /\ IsNone(specs["A"])

\* C18: after c.extend(other, copy_reference) the raw list of c is its old
\* contents followed by the raw list of other; the reference map of c is
\* that of other when copy_reference is true and its own old map otherwise;
\* the raw list, the reference map and the three caches of another
\* container other are what they were.
C18_ExtendAppendsAndLeavesOther ==
    last.op = "extend" =>
        /\ last.err = "ok"
        /\ yaml_list[last.c]
             = pre.yaml_list[last.c] \o pre.yaml_list[last.arg.other]
        /\ reference[last.c]
             = IF last.arg.copy_reference
               THEN pre.reference[last.arg.other]
               ELSE pre.reference[last.c]
        /\ last.arg.other # last.c =>
              /\ yaml_list[last.arg.other] = pre.yaml_list[last.arg.other]
              /\ reference[last.arg.other] = pre.reference[last.arg.other]
              /\ Deep(expanded_list[last.arg.other], heap)
                   = pre.expanded_list[last.arg.other]
              /\ constraints[last.arg.other] = pre.constraints[last.arg.other]
              /\ specs[last.arg.other] = pre.specs[last.arg.other]

\* A non-empty list whose map named B was extended by B with the map
\* copied, the expanded view of B being cached.
C18_Witness ==
    /\ last.op = "extend"
    /\ last.arg.other = "B"
    /\ last.arg.copy_reference
    /\ Len(pre.yaml_list["A"]) > 0
    /\ reference["A"] # pre.reference["A"]
    /\ ~ IsNone(expanded_list["B"])

RECURSIVE FoldOf(_, _)
\* The first n constraints of combo folded: the first one, constrained by
\* the second, the result by the third, and so on.
FoldOf(combo, n) ==
    IF n = 1 THEN SpecOf(combo[1])
    ELSE Constrain(FoldOf(combo, n - 1), combo[n])

\* What specs_as_constraints makes of the expanded view held for c.
ConstraintsOfView(c) ==
    constraints_from(expanded_list[c].xs, heap, 1,
                     [res |-> <<>>, err |-> "ok"]).res

\* C19: after a read of specs that returns, specs has one element per combo
\* of specs_as_constraints, in order; element i is the first constraint of
\* combo i constrained by the later ones in combo order; the combos are
\* those held before the read if they were cached, and those the expanded
\* view gives if the read computed them.
C19_SpecsFoldEachCombo ==
    (last.op = "specs" /\ last.err = "ok") =>
        /\ Len(specs[last.c].xs) = Len(constraints[last.c].xs)
        /\ \A i \in 1..Len(specs[last.c].xs) :
              specs[last.c].xs[i]
                = FoldOf(constraints[last.c].xs[i],
                         Len(constraints[last.c].xs[i]))
        /\ IF IsNone(pre.constraints[last.c])
           THEN constraints[last.c].xs = ConstraintsOfView(last.c)
           ELSE constraints[last.c] = pre.constraints[last.c]

\* The specs of [{matrix: [[+a, %g], [p], [@1, ~b]], ...}, y] were read,
\* the constraints being cached: the combo [p, +a, @1] gave one spec of
\* the three constraints in that order.
C19_Witness ==
    /\ last.op = "specs" /\ last.err = "ok" /\ last.c = "B"
    /\ ~ IsNone(pre.constraints["B"])
    /\ IsNone(pre.specs["B"])
    /\ \E i \in 1..Len(specs["B"].xs) :
          /\ Len(constraints["B"].xs[i]) = 3
          /\ specs["B"].xs[i].toks = << <<"p">>, <<"+", "a">>, <<"@", "1">> >>

\* The first character of token s, or no character.
FirstChar(s) == IF Len(s) = 0 THEN "" ELSE s[1]

\* C20: the key of every token is one of 1..5: 5 exactly for a leading ^,
\* 4 exactly for a leading /, 3 exactly for a leading %, 2 exactly for a
\* token without such a lead that starts with ~, -, + or @ or holds an =,
\* and 1 for the rest, the empty token among them.
C20_KeyByPrecedence ==
    last.op = "spec_ordering_key" =>
        /\ last.err = "ok"
        /\ last.ret \in 1..5
        /\ (last.ret = 5) <=> (FirstChar(last.arg.s) = "^")
        /\ (last.ret = 4) <=> (FirstChar(last.arg.s) = "/")
        /\ (last.ret = 3) <=> (FirstChar(last.arg.s) = "%")
        /\ (last.ret = 2) <=>
              /\ FirstChar(last.arg.s) \notin {"^", "/", "%"}
              /\ \/ FirstChar(last.arg.s) \in {"~", "-", "+", "@"}
                 \/ \E i \in 1..Len(last.arg.s) : last.arg.s[i] = "="
        /\ last.arg.s = <<>> => last.ret = 1
        /\ last.arg.s = DepVariant => last.ret = 5

\* The key of ^dep+x=y was taken and is 5.
C20_Witness ==
    /\ last.op = "spec_ordering_key"
    /\ last.arg.s = DepVariant
    /\ last.ret = 5

\* The characters of value v between its leading and trailing blanks,
\* without a leading "+".
Unsigned(v) ==
    LET s == v.s
        core == SelectSeq([i \in 1..Len(s) |->
                    IF (\A k \in 1..i : s[k] = " ")
                       \/ (\A k \in i..Len(s) : s[k] = " ")
                    THEN "" ELSE s[i]], LAMBDA ch : ch # "")
    IN IF Len(core) > 0 /\ core[1] = "+" THEN Tail(core) ELSE core

\* Value v is set to a positive integer: digits only, one of them not 0.
PositiveInteger(v) ==
    /\ v # Unset
    /\ Len(Unsigned(v)) > 0
    /\ \A i \in 1..Len(Unsigned(v)) : IsDigit(Unsigned(v)[i])
    /\ \E i \in 1..Len(Unsigned(v)) : Unsigned(v)[i] # "0"

RECURSIVE DigitsOf(_)
\* The decimal digits of n.
DigitsOf(n) ==
    IF n < 10 THEN <<DigitChars[n + 1]>>
    ELSE Append(DigitsOf(n \div 10), DigitChars[(n % 10) + 1])

RECURSIVE Significant(_)
\* The digits d without the leading zeros.
Significant(d) ==
    IF Len(d) > 1 /\ d[1] = "0" THEN Significant(Tail(d)) ELSE d

\* The positive integer v is the number n.
Denotes(v, n) == n > 0 /\ DigitsOf(n) = Significant(Unsigned(v))

\* The number of digits x is at most that of digits y.
DigitsLeq(x, y) ==
    \/ Len(x) < Len(y)
    \/ /\ Len(x) = Len(y)
       /\ \/ x = y
          \/ \E i \in 1..Len(x) :
                /\ \A k \in 1..(i - 1) : x[k] = y[k]
                /\ DigitVal(x[i]) < DigitVal(y[i])

\* n is at most the positive integer v.
AtMost(n, v) == DigitsLeq(DigitsOf(n), Significant(Unsigned(v)))

\* n is the smaller of the positive integers v and w.
SmallerOf(n, v, w) ==
    \/ Denotes(v, n) /\ AtMost(n, w)
    \/ Denotes(w, n) /\ AtMost(n, v)

\* n is the smaller of the number cpus and the positive integer v.
CappedBy(n, cpus, v) ==
    \/ n = cpus /\ AtMost(cpus, v)
    \/ Denotes(v, n) /\ n <= cpus

\* C21: with omp, cpus_available returns OMP_NUM_THREADS when that is a
\* positive integer between blanks, or the smaller of it and
\* OMP_THREAD_LIMIT when that is a positive integer too, whatever the count
\* of CPUs detected; otherwise the count detected, or the smaller of it and
\* a positive integer OMP_THREAD_LIMIT; without omp, the count detected.
C21_CpusAvailable ==
    last.op = "cpus_available" =>
        LET num == last.arg.environ.OMP_NUM_THREADS
            lim == last.arg.environ.OMP_THREAD_LIMIT
            cpus == last.arg.cpus
        IN IF ~ last.arg.omp THEN last.ret = cpus
           ELSE IF PositiveInteger(num)
           THEN IF PositiveInteger(lim) THEN SmallerOf(last.ret, num, lim)
                ELSE Denotes(num, last.ret)
           ELSE IF PositiveInteger(lim) THEN CappedBy(last.ret, cpus, lim)
                ELSE last.ret = cpus

\* With 10 CPUs detected, OMP_NUM_THREADS "  42  " and OMP_THREAD_LIMIT
\* "-5", cpus_available(omp=True) returned 42.
C21_Witness ==
    /\ last.op = "cpus_available"
    /\ last.arg.omp
    /\ last.arg.cpus = 10
    /\ last.arg.environ.OMP_NUM_THREADS = S(<<" ", " ", "4", "2", " ", " ">>)
    /\ last.arg.environ.OMP_THREAD_LIMIT = S(<<"-", "5">>)
    /\ last.ret = 42

\* The rows of record h that are records themselves.
MatrixRows(h) ==
    SelectSeq(DictGet(heap[h], "matrix", L(<<>>)).xs, LAMBDA row : IsDict(row))

RECURSIVE CompositeTotal(_, _)
\* The number of composites of the records rows from i on.
CompositeTotal(rows, i) ==
    IF i > Len(rows) THEN 0
    ELSE Len(Composites(rows[i])) + CompositeTotal(rows, i + 1)

\* C22: in a record with a row that is a record itself, every combo holds
\* every composite of that row: the row stands for one row of one element
\* per combination it emits, so the number of combos before exclusion is
\* the product of the lengths of the other rows, and each combo has one
\* token per other row and one per composite.
C22_MatrixRowGivesSingletonRows ==
    \A h \in 1..Len(heap) :
        (Len(MatrixRows(h)) > 0 /\ EmittedBy(h).err = "ok") =>
            /\ TupleCount(RowsOf(h))
                 = RowLengthProduct(DictGet(heap[h], "matrix", L(<<>>)).xs, 1)
            /\ Len(EmittedBy(h).res) <= TupleCount(RowsOf(h))
            /\ ExcludesOf(h) = <<>> =>
                  Len(EmittedBy(h).res) = TupleCount(RowsOf(h))
            /\ \A n \in 1..Len(EmittedBy(h).res) :
                  LET e == SigilOff(EmittedBy(h).res[n], SigilOf(h))
                  IN /\ Len(e) = Len(DictGet(heap[h], "matrix", L(<<>>)).xs)
                                   - Len(MatrixRows(h))
                                   + CompositeTotal(MatrixRows(h), 1)
                     /\ \A i \in 1..Len(MatrixRows(h)) :
                           \A j \in 1..Len(Composites(MatrixRows(h)[i])) :
                               \E a \in 1..Len(e) :
                                   e[a] = Composites(MatrixRows(h)[i])[j]

\* The record {matrix: [{matrix: [[+a, +c]]}, [p, q]]} was expanded into
\* the two combos [p, +a, +c] and [q, +a, +c].
C22_Witness ==
    /\ last.op = "specs_as_constraints" /\ last.err = "ok"
    /\ \E h \in 1..Len(heap) :
          /\ Len(MatrixRows(h)) = 1
          /\ EmittedBy(h).res
               = << <<S(<<"p">>), S(<<"+", "a">>), S(<<"+", "c">>)>>,
                    <<S(<<"q">>), S(<<"+", "a">>), S(<<"+", "c">>)>> >>

\* C23: a matrix record whose matrix list has no rows, that carries no
\* sigil and whose exclusions the spec of no token does not satisfy, emits
\* exactly one combo, and that combo has no token.
C23_NoRowsGiveOneEmptyCombo ==
    \A h \in 1..Len(heap) :
        (/\ DictGet(heap[h], "matrix", L(<<>>)).xs = <<>>
         /\ SigilOf(h) = <<>>
         /\ ~ Dropped(<<>>, ExcludesOf(h))) =>
            EmittedBy(h) = [res |-> << <<>> >>, err |-> "ok"]

\* The constraints of [{matrix: [], exclude: [r]}] were read and are one
\* combo without a constraint.
C23_Witness ==
    /\ last.op = "specs_as_constraints" /\ last.err = "ok"
    /\ yaml_list[last.c] = <<MatrixZero>>
    /\ constraints[last.c] = L(<< <<>> >>)
    /\ \E h \in 1..Len(heap) :
          /\ DictGet(heap[h], "matrix", L(<<>>)).xs = <<>>
          /\ SigilOf(h) = <<>>

\* C24: when add finds the expanded view cached, the view it leaves is the
\* expansion of the raw list as it now is, with every reference of it
\* defined and expanded, so a read after add returns what it would return
\* had the view not been cached.
C24_AddIsCacheTransparent ==
    (last.op = "add" /\ ~ IsNone(expanded_list[last.c])) =>
        /\ ~ HoldsUndefined(L(yaml_list[last.c]), reference[last.c])
        /\ Unsigiled(Deep(expanded_list[last.c], heap))
             = Unsigiled(RawExpansion(L(yaml_list[last.c]), last.c, Fuel))

\* C25: a read of a view of one container leaves every other container as
\* it was: its raw list, its constraints and its specs, and its expanded
\* view, which is the one it held before the read or, if the read made it,
\* the expansion of its own raw list, a matrix record in it carrying no
\* sigil that its raw list does not give it.
C25_ReadLeavesReferencedListAlone ==
    last.op \in ReadOps =>
        \A b \in Containers \ {last.c} :
            /\ yaml_list[b] = pre.yaml_list[b]
            /\ constraints[b] = pre.constraints[b]
            /\ specs[b] = pre.specs[b]
            /\ IF ~ IsNone(pre.expanded_list[b])
               THEN Deep(expanded_list[b], heap) = pre.expanded_list[b]
               ELSE \/ IsNone(expanded_list[b])
                    \/ Deep(expanded_list[b], heap)
                         = RawExpansion(L(yaml_list[b]), b, Fuel)

\* C26: what a read of A returns is the expansion of its raw list over the
\* lists it names as they now are: the expanded view holds the present
\* contents of the named list, and specs has one spec per element of it.
C26_ReadReflectsNamedLists ==
    (last.op \in {"specs_as_yaml_list", "specs"} /\ last.err = "ok"
        /\ last.c \in Actors) =>
        /\ Deep(expanded_list[last.c], heap)
             = RawExpansion(L(yaml_list[last.c]), last.c, Fuel)
        /\ last.op = "specs" =>
              Len(specs[last.c].xs)
                = Len(RawExpansion(L(yaml_list[last.c]), last.c, Fuel).xs)

\* The errors a read raises itself or lets through from the calls it makes
\* on its entries.
ReportedErrors ==
    {"UndefinedReferenceError", "ValueError", "TypeError", "IndexError"}

\* C27: a read of specs_as_yaml_list ends, whatever the maps, with a value
\* or with an error the read reports; it never descends from list to
\* named list until the interpreter has no frame left for it.
C27_ReadEndsOnEveryMap ==
    last.op = "specs_as_yaml_list" =>
        last.err \in {"ok"} \cup ReportedErrors

\* C28: every combo of the constraints a read leaves cached has a
\* constraint, and no read fails for want of a first element of a combo,
\* neither specs taking the first constraint as its base nor the expansion
\* of a matrix record putting the sigil on the first token.
C28_NoEmptyCombo ==
    /\ (last.op \in {"specs_as_constraints", "specs"} /\ last.err = "ok") =>
          \A n \in 1..Len(constraints[last.c].xs) :
              Len(constraints[last.c].xs[n]) >= 1
    /\ last.op \in ReadOps => last.err # "IndexError"
=============================================================================
